---- MODULE Spec2Model ----
(***************************************************************************)
(* Incremental market-data ingestion (toolbox/market/update.py).           *)
(*                                                                         *)
(* Dates are day numbers counted from the Unix epoch (day 0 is a Thursday),*)
(* provider timestamps are Unix milliseconds, sleep durations are exact    *)
(* rationals <<numerator, denominator>> in seconds.  The two Mongo         *)
(* collections are sets of documents; a document is a record.              *)
(***************************************************************************)
EXTENDS Integers, Sequences, FiniteSets, TLC

\* ------------------------------------------------------------------ bounds

\* last calendar day (days since the epoch) the clock of the model reaches
MaxDay == 4
\* largest MAX_POLYGON_RETRIES the fetcher is exercised with
MaxRetries == 10
\* largest MAX_POLYGON_RETRIES the orchestrator runs are exercised with
MaxRunRetries == 1
\* MAX_INITIAL_DAYS the orchestrator runs are exercised with
RunInitialDays == 3
\* number of writes the upsert sink is exercised with
MaxSinkWrites == 3
\* last day the clock of the upsert sink reaches
MaxSinkClock == 2
\* largest day number the gap calculator is exercised with, besides GapInstance
MaxGapDay == 6

\* ------------------------------------------------------- program constants

\* BACKOFF_BASE = 1.5 = BACKOFF_NUM / BACKOFF_DEN
BACKOFF_NUM == 3
BACKOFF_DEN == 2
\* `if backoff > 20`
BACKOFF_ALIGN_THRESHOLD == 20
\* `60 - (time.time() % 60)`
SECONDS_PER_MINUTE == 60
\* MAX_TICKERS = 0: unlimited
MAX_TICKERS == 0
\* DEBUG_POLYGON = os.getenv("DEBUG_POLYGON", "0") == "1"
DEBUG_POLYGON == FALSE
\* datetime.fromtimestamp(ts_ms / 1000, utc).date(): milliseconds in a day
MS_PER_DAY == 86400000
\* date.weekday() of day 0 (1970-01-01, a Thursday; Monday is 0)
EPOCH_WEEKDAY == 3
\* `day.weekday() >= 5`, `d.weekday() < 5`
SATURDAY == 5

\* SLEEP_SECONDS = 1.5, time.sleep(0.25), time.sleep(0.2), and no sleep, in seconds
SLEEP_SECONDS == <<3, 2>>
BACKFILL_PACE == <<1, 4>>
INDEX_PACE == <<1, 5>>
NoPace == <<0, 1>>

STOCK_COLLECTION == "stock_daily"
INDEX_COLLECTION == "index_daily"

\* Python's None for dates, numbers and cursors
None == 0 - 1
\* Python's None for a ticker attribute
NoTicker == "None"

\* the tickers the providers know, the interest tickers of stock.yml (sorted),
\* and INDEX_LIST of directory.yml
Tickers == {"AAPL", "MSFT"}
INDEX_LIST == <<"DJI", "GSPC">>
Prices == {150}

VARIABLES
    today,              \* datetime.now(timezone.utc).date()
    max_retries,        \* MAX_POLYGON_RETRIES
    default_start,      \* DEFAULT_START_DATE
    max_initial_days,   \* MAX_INITIAL_DAYS
    dry_run,            \* DRY_RUN
    legacy_sdk,         \* the installed polygon SDK rejects the modern call signature
    index_list,         \* INDEX_LIST, the keys of directory.yml's indexes
    interest,           \* _load_interest_tickers(), sorted
    stock_daily,        \* db[STOCK_COLLECTION]
    index_daily,        \* db[INDEX_COLLECTION]
    pc,                 \* position of the running pipeline
    last_date,          \* cursor read at the start of the run / of the ticker
    start_date,         \* first day of the gap
    days,               \* days / missing_days: the days the run iterates
    di,                 \* position in days (1-based, next day to process)
    ticker_i,           \* position in the ticker loop (1-based)
    attempt,            \* request_with_retry: attempt
    invocations,        \* operation invocations of the current fetch
    sleeps,             \* backoff sleeps of the current fetch, in order
    fetch_status,       \* how the current/last fetch ended
    last_error,         \* str(e) of the last exception the current fetch caught
    results,            \* value the fetch returned
    global_last,        \* backfill: global_last
    writes,             \* upserts of this run, in order: <<ticker, date>>
    units,              \* units of this run's gap: <<ticker or "*", day>>
    attempted,          \* units a fetch was issued for
    covered,            \* units fetched successfully with every record persisted
    skipped,            \* units given up: Empty by error, dropped, or write failure
    pipeline,           \* the pipeline that runs, or ran last
    insecure,           \* yfinance's shared YfData holds the verify=False session
    fetched,            \* keys <<ticker, date>> of the valid records the provider returned
    pace,               \* pacing sleep executed since the last fetch was entered
    store_reachable,    \* the MongoDB server at MONGO_URI answers this process
    write_failed,       \* units of this run with a record whose update_one raised
    end_week,           \* load_context: end_week
    start_week,         \* load_context: start_week
    retry,              \* fetch_weekly: retry
    alpha_weekly_raw,   \* db[RAW_COLL], in the order of fetched_at
    alpha_weekly_summary \* db[SUMMARY_COLL], in the order of insertion

vars == <<today, max_retries, default_start, max_initial_days, dry_run, legacy_sdk,
          index_list, interest, stock_daily, index_daily, pc, last_date, start_date, days, di,
          ticker_i, attempt, invocations, sleeps, fetch_status, last_error, results,
          global_last,
          writes, units, attempted, covered, skipped, pipeline, insecure, fetched,
          pace, store_reachable, write_failed,
          end_week, start_week, retry, alpha_weekly_raw, alpha_weekly_summary>>

\* ------------------------------------------------------------ date helpers

\* date.weekday(): Monday is 0, Sunday is 6
weekday(d) ==
    (d + EPOCH_WEEKDAY) % 7

_is_trading_day(d) ==
    weekday(d) < SATURDAY

\* _as_date(ts_ms): the UTC calendar day of a millisecond timestamp
_as_date(ts_ms) ==
    ts_ms \div MS_PER_DAY

\* _daterange with a fault: the days come latest first
_daterange_descending(start, end_date) ==
    IF start <= end_date THEN [i \in 1..(end_date - start + 1) |-> end_date - (i - 1)]
    ELSE <<>>

\* list(_daterange(start_date, end_date)): cur runs from start_date by one day
\* while cur <= end_date; the i-th day yielded is start_date + (i - 1)
_daterange(start, end_date) ==
    IF start <= end_date THEN [i \in 1..(end_date - start + 1) |-> start + (i - 1)]
    ELSE <<>>

SeqToSet(s) ==
    {s[i] : i \in 1..Len(s)}

MaxOf(S) ==
    CHOOSE x \in S : \A y \in S : y <= x

\* ------------------------------------------------------------------- store

\* find_one({}, sort=[("date", -1)]): the latest date of the stock collection
get_last_stock_date(coll) ==
    IF coll = {} THEN None ELSE MaxOf({r.date : r \in coll})

\* find_one({"ticker": ticker}, sort=[("date", -1)])
_get_last_date_for_ticker(coll, ticker) ==
    LET mine == {r \in coll : r.ticker = ticker}
    IN  IF mine = {} THEN None ELSE MaxOf({r.date : r \in mine})

get_last_index_date(coll, ticker) ==
    LET mine == {r \in coll : r.ticker = ticker}
    IN  IF mine = {} THEN None ELSE MaxOf({r.date : r \in mine})

\* update_one with a fault: on a match the stored fields are kept, only new
\* fields are added
update_one_keeps_fields(coll, doc) ==
    LET same == {r \in coll : r.ticker = doc.ticker /\ r.date = doc.date}
    IN  IF same = {} THEN coll \cup {doc}
        ELSE (coll \ same) \cup {r @@ doc : r \in same}

\* update_one with a fault: insert_one, whatever the collection holds
update_one_inserts(coll, doc) ==
    coll \cup {doc}

\* update_one({"ticker": t, "date": d}, {"$set": doc}, upsert=True): the first
\* document matching the key gets the fields of doc set; with no match, doc is inserted
update_one(coll, doc) ==
    LET match == {r \in coll : r.ticker = doc.ticker /\ r.date = doc.date}
    IN  IF match = {} THEN coll \cup {doc}
        ELSE LET old == CHOOSE r \in match : TRUE
             IN  (coll \ {old}) \cup {doc @@ old}

\* ---------------------------------------------------------- gap calculator

\* StocksStartDate with a fault: the gap starts on the cursor's own day
StocksStartDate_on_cursor(last, dflt) ==
    IF last = None THEN dflt ELSE last

\* fetch_and_upsert_stocks: start_date before trimming
StocksStartDate(last, dflt) ==
    IF last = None THEN dflt ELSE last + 1

\* `if start_date > today: return`
StocksUpToDate(start, now) ==
    start > now

\* StocksTrimmedStart with a fault: the window is one day short
StocksTrimmedStart_short(last, start, now, max_days) ==
    IF last = None /\ max_days > 0
    THEN LET max_start == (now - max_days) + 1
         IN  IF start < max_start THEN max_start ELSE start
    ELSE start

\* the initial catch-up window: `if last_date is None and MAX_INITIAL_DAYS > 0`
StocksTrimmedStart(last, start, now, max_days) ==
    IF last = None /\ max_days > 0
    THEN LET max_start == now - max_days
         IN  IF start < max_start THEN max_start ELSE start
    ELSE start

\* days = list(_daterange(start_date, today)); <<>> stands for the early return
StocksDays(last, now, dflt, max_days) ==
    LET start == StocksStartDate(last, dflt)
    IN  IF StocksUpToDate(start, now) THEN <<>>
        ELSE _daterange(StocksTrimmedStart(last, start, now, max_days), now)

\* IndexStartDate with a fault: the window starts on the cursor's own day
IndexStartDate_on_cursor(last, dflt) ==
    IF last = None THEN dflt ELSE last

\* fetch_and_upsert_indices: start_date
IndexStartDate(last, dflt) ==
    IF last = None THEN dflt ELSE last + 1

\* IndexUpToDate with a fault: a cursor on today is not up to date
IndexUpToDate_late(start, now) ==
    start > now + 1

\* `if start_date > today: continue`
IndexUpToDate(start, now) ==
    start > now

\* end_date = today + timedelta(days=1): yfinance's end is exclusive
IndexEndDate(now) ==
    now + 1

\* the days history(start=start_date, end=end_date) is asked for
IndexWindow(start, end_excl) ==
    _daterange(start, end_excl - 1)

\* backfill_interest_tickers: start of a ticker's gap
BackfillStartDate(last_ticker_date, dflt) ==
    IF last_ticker_date = None THEN dflt ELSE last_ticker_date + 1

\* MissingDays with a fault: the missing days come latest first
MissingDays_descending(start, glast) ==
    LET asc == SelectSeq(_daterange(start, glast), _is_trading_day)
    IN  [i \in 1..Len(asc) |-> asc[Len(asc) + 1 - i]]

\* MissingDays with a fault: the trading-day filter is left out
MissingDays_every_day(start, glast) ==
    _daterange(start, glast)

\* missing_days = [d for d in _daterange(start_date, global_last) if _is_trading_day(d)]
MissingDays(start, glast) ==
    SelectSeq(_daterange(start, glast), _is_trading_day)

\* ---------------------------------------------------------------- provider

\* time.time() % 60 when a backoff is computed, in whole seconds
ClockSeconds == {0, 30, 59}

\* what str(e) of a provider failure holds, as the tokens the classifiers look for
ErrorMessages == {{"429"}, {"rate", "limit"}, {"rate"}, {"404"}}
\* no exception caught yet
NoError == {"-"}

\* a GroupedDailyAgg with the modern attribute names
ModernAgg(tk, day, price) ==
    [ticker |-> tk, T |-> NoTicker, timestamp |-> day * MS_PER_DAY + 20 * 3600000,
     t |-> None, open |-> price, o |-> None, close |-> price, c |-> None]

\* a legacy aggregate with the single-letter keys
LegacyAgg(tk, day, price) ==
    [ticker |-> NoTicker, T |-> tk, timestamp |-> None,
     t |-> day * MS_PER_DAY + 4 * 3600000, open |-> None, o |-> price,
     close |-> None, c |-> price]

\* an aggregate with no ticker at all
NamelessAgg(day, price) ==
    [ticker |-> NoTicker, T |-> NoTicker, timestamp |-> day * MS_PER_DAY + 1,
     t |-> None, open |-> price, o |-> None, close |-> price, c |-> None]

\* an aggregate with a ticker and no timestamp
UndatedAgg(tk, price) ==
    [ticker |-> tk, T |-> NoTicker, timestamp |-> None, t |-> None,
     open |-> price, o |-> None, close |-> price, c |-> None]

\* what client.get_grouped_daily_aggs(date=day) may return: nothing (a holiday),
\* one aggregate, or several aggregates of either naming convention
GroupedDaily(day) ==
    {<<>>}
    \cup {<<ModernAgg("AAPL", day, p)>> : p \in Prices}
    \cup {<<LegacyAgg("AAPL", day, p), NamelessAgg(day, p), UndatedAgg("MSFT", p),
              ModernAgg("MSFT", day, p)>> : p \in Prices}

\* ------------------------------------------------------- record normalizer

\* Python's `a or b` on numbers and on strings
OrNum(a, b) ==
    IF a # None /\ a # 0 THEN a ELSE b

OrTicker(a, b) ==
    IF a # NoTicker /\ a # "" THEN a ELSE b

\* ticker = getattr(agg, "ticker", None) or getattr(agg, "T", None)
AggTicker(agg) ==
    OrTicker(agg.ticker, agg.T)

\* ts_ms = getattr(agg, "timestamp", None) or getattr(agg, "t", None)
AggTimestamp(agg) ==
    OrNum(agg.timestamp, agg.t)

\* AggRejected with a fault: the timestamp is not looked at
AggRejected_ticker_only(agg) ==
    AggTicker(agg) = NoTicker \/ AggTicker(agg) = ""

\* `if not ticker: continue` and `if not ts_ms: continue`
AggRejected(agg) ==
    \/ AggTicker(agg) = NoTicker \/ AggTicker(agg) = ""
    \/ AggTimestamp(agg) = None \/ AggTimestamp(agg) = 0

\* the document fetch_and_upsert_stocks builds from an aggregate
StockDoc(agg) ==
    [ticker |-> AggTicker(agg),
     date   |-> _as_date(AggTimestamp(agg)),
     open   |-> OrNum(agg.open, agg.o),
     close  |-> OrNum(agg.close, agg.c),
     source |-> "polygon"]

\* the keys of the aggregates of a response that carry a ticker and a timestamp
ValidKeys(resp) ==
    {<<AggTicker(resp[i]), _as_date(AggTimestamp(resp[i]))>> :
       i \in {j \in 1..Len(resp) : ~AggRejected(resp[j])}}

\* ----------------------------------------------------- rate-limited fetcher

\* is_rate_limited with a fault: `or` between the rate and limit tokens
is_rate_limited_loose(msg) ==
    ("429" \in msg) \/ ("rate" \in msg \/ "limit" \in msg)

\* request_with_retry: rate_limited
is_rate_limited(msg) ==
    ("429" \in msg) \/ ("rate" \in msg /\ "limit" \in msg)

\* RetriesExhausted with a fault: gives up one attempt early
RetriesExhausted_early(att, maxr) ==
    att >= maxr

\* `if attempt > MAX_POLYGON_RETRIES`
RetriesExhausted(att, maxr) ==
    att > maxr

RECURSIVE Pow(_, _)
Pow(b, n) ==
    IF n = 0 THEN 1 ELSE b * Pow(b, n - 1)

RatLess(x, y) ==
    x[1] * y[2] < y[1] * x[2]

RatMax(x, y) ==
    IF RatLess(x, y) THEN y ELSE x

\* backoff = BACKOFF_BASE ** attempt
RawBackoff(att) ==
    <<Pow(BACKOFF_NUM, att), Pow(BACKOFF_DEN, att)>>

\* Backoff with a fault: the exponent is dropped
Backoff_flat(att, clock) ==
    RawBackoff(1)

\* `if backoff > 20`: the backoff is raised to the next minute boundary plus one
\* second; then time.sleep(backoff)
Backoff(att, clock) ==
    LET raw == RawBackoff(att)
    IN  IF RatLess(<<BACKOFF_ALIGN_THRESHOLD, 1>>, raw)
        THEN RatMax(raw, <<((SECONDS_PER_MINUTE - clock) + 1) * raw[2], raw[2]>>)
        ELSE raw

FetchVars == <<attempt, invocations, sleeps, fetch_status, last_error, results>>
ConfigVars == <<today, max_retries, default_start, max_initial_days, dry_run,
                legacy_sdk, index_list, store_reachable>>
StoreVars == <<stock_daily, index_daily>>
LoopVars == <<last_date, start_date, days, di, ticker_i, global_last, interest,
              pipeline, insecure, pace>>
HistoryVars == <<writes, units, attempted, covered, skipped, fetched, write_failed>>
\* state of the weekly report scripts (common.py, alphaventage.py)
ReportVars == <<end_week, start_week, retry, alpha_weekly_raw, alpha_weekly_summary>>

\* the weekly report scripts have not run
NoReport ==
    /\ end_week = None /\ start_week = None /\ retry = 0
    /\ alpha_weekly_raw = <<>> /\ alpha_weekly_summary = <<>>

\* request_with_retry under DRY_RUN: no call, []
RequestDryRun ==
    /\ pc = "stocks_fetch" /\ dry_run
    /\ results' = <<>> /\ fetch_status' = "dry"
    /\ pc' = "stocks_batch"
    /\ UNCHANGED <<attempt, invocations, sleeps, last_error>>
    /\ UNCHANGED <<ConfigVars, ReportVars, StoreVars, LoopVars, HistoryVars>>

\* the call returns; the response is normalised to a list
RequestSuccess ==
    /\ pc = "stocks_fetch" /\ ~dry_run
    /\ \E resp \in GroupedDaily(days[di]) :
         /\ results' = resp
         /\ fetched' = fetched \cup ValidKeys(resp)
    /\ invocations' = invocations + 1
    /\ UNCHANGED write_failed
    /\ fetch_status' = "ok"
    /\ pc' = "stocks_batch"
    /\ UNCHANGED <<attempt, sleeps, last_error>>
    /\ UNCHANGED <<writes, units, attempted, covered, skipped>>
    /\ UNCHANGED <<ConfigVars, ReportVars, StoreVars, LoopVars>>

\* the call raises a rate-limit error and retries are left: sleep, try again
RequestRateLimited ==
    /\ pc = "stocks_fetch" /\ ~dry_run
    /\ \E msg \in ErrorMessages : is_rate_limited(msg) /\ last_error' = msg
    /\ ~RetriesExhausted(attempt + 1, max_retries)
    /\ invocations' = invocations + 1
    /\ attempt' = attempt + 1
    /\ \E clock \in ClockSeconds :
         sleeps' = Append(sleeps, Backoff(attempt + 1, clock))
    /\ UNCHANGED <<pc, fetch_status, results>>
    /\ UNCHANGED <<ConfigVars, ReportVars, StoreVars, LoopVars, HistoryVars>>

\* the call raises a rate-limit error after the last retry: skip the day
RequestRateExhausted ==
    /\ pc = "stocks_fetch" /\ ~dry_run
    /\ \E msg \in ErrorMessages : is_rate_limited(msg) /\ last_error' = msg
    /\ RetriesExhausted(attempt + 1, max_retries)
    /\ invocations' = invocations + 1
    /\ attempt' = attempt + 1
    /\ results' = <<>> /\ fetch_status' = "exhausted"
    /\ pc' = "stocks_batch"
    /\ UNCHANGED sleeps
    /\ UNCHANGED <<ConfigVars, ReportVars, StoreVars, LoopVars, HistoryVars>>

\* the call raises any other error: logged, []
RequestError ==
    /\ pc = "stocks_fetch" /\ ~dry_run
    /\ \E msg \in ErrorMessages : ~is_rate_limited(msg) /\ last_error' = msg
    /\ invocations' = invocations + 1
    /\ attempt' = attempt + 1
    /\ results' = <<>> /\ fetch_status' = "error"
    /\ pc' = "stocks_batch"
    /\ UNCHANGED sleeps
    /\ UNCHANGED <<ConfigVars, ReportVars, StoreVars, LoopVars, HistoryVars>>

request_with_retry ==
    \/ RequestDryRun
    \/ RequestSuccess
    \/ RequestRateLimited
    \/ RequestRateExhausted
    \/ RequestError

\* ------------------------------------------------------------ the day's batch

\* iterable_aggs = results if not MAX_TICKERS else results[:MAX_TICKERS]
IterableAggs(res) ==
    IF MAX_TICKERS = 0 THEN res
    ELSE SubSeq(res, 1, IF Len(res) < MAX_TICKERS THEN Len(res) ELSE MAX_TICKERS)

\* the `for agg in iterable_aggs` loop over aggs[i..n]: every accepted aggregate
\* is upserted in list order; the write of aggs[fail] raises PyMongoError, which is
\* logged and the loop goes on.  Gives the collection, the keys written in order
\* and whether an accepted aggregate was lost.
RECURSIVE UpsertAggs(_, _, _, _, _)
\* UpsertAggs with a fault: the PyMongoError leaves the loop, the aggregates after
\* aggs[fail] are not upserted
UpsertAggs_aborts(coll, aggs, i, n, fail) ==
    IF i > n THEN [coll |-> coll, written |-> <<>>, lost |-> FALSE]
    ELSE IF AggRejected(aggs[i]) THEN UpsertAggs(coll, aggs, i + 1, n, fail)
    ELSE IF i = fail
         THEN [coll |-> coll, written |-> <<>>, lost |-> TRUE]
    ELSE LET doc  == StockDoc(aggs[i])
             rest == UpsertAggs(update_one(coll, doc), aggs, i + 1, n, fail)
         IN  [rest EXCEPT !.written = <<(<<doc.ticker, doc.date>>)>> \o @]

UpsertAggs(coll, aggs, i, n, fail) ==
    IF i > n THEN [coll |-> coll, written |-> <<>>, lost |-> FALSE]
    ELSE IF AggRejected(aggs[i]) THEN UpsertAggs(coll, aggs, i + 1, n, fail)
    ELSE IF i = fail
         THEN [UpsertAggs(coll, aggs, i + 1, n, fail) EXCEPT !.lost = TRUE]
    ELSE LET doc  == StockDoc(aggs[i])
             rest == UpsertAggs(update_one(coll, doc), aggs, i + 1, n, fail)
         IN  [rest EXCEPT !.written = <<(<<doc.ticker, doc.date>>)>> \o @]

\* ------------------------------------------- bulk-grouped stocks orchestrator

Idle ==
    pc = "idle"

ResetFetch ==
    /\ attempt' = 0 /\ invocations' = 0 /\ sleeps' = <<>>
    /\ fetch_status' = "none" /\ last_error' = NoError /\ results' = <<>>

ResetHistory ==
    /\ writes' = <<>> /\ units' = {} /\ attempted' = {} /\ covered' = {} /\ skipped' = {}
    /\ fetched' = {} /\ write_failed' = {}

StockUnits(ds) ==
    {<<"*", ds[i]>> : i \in {j \in 1..Len(ds) : weekday(ds[j]) < SATURDAY}}

\* fetch_and_upsert_stocks up to `if start_date > today: return`, taken
StocksNothingToDo ==
    /\ Idle
    /\ LET last  == get_last_stock_date(stock_daily)
           start == StocksStartDate(last, default_start)
       IN  /\ StocksUpToDate(start, today)
           /\ last_date' = last /\ start_date' = start
    /\ days' = <<>> /\ di' = 1 /\ ticker_i' = 1
    /\ pipeline' = "stocks" /\ pc' = "done"
    /\ writes' = <<>> /\ units' = {} /\ attempted' = {} /\ covered' = {} /\ skipped' = {}
    /\ fetched' = {} /\ write_failed' = {}
    /\ ResetFetch
    /\ UNCHANGED <<ConfigVars, ReportVars, StoreVars, global_last, interest, insecure>>
    /\ UNCHANGED pace

\* fetch_and_upsert_stocks up to `days = list(_daterange(start_date, today))`
StocksStart ==
    /\ Idle
    /\ LET last  == get_last_stock_date(stock_daily)
           start == StocksStartDate(last, default_start)
           ds    == StocksDays(last, today, default_start, max_initial_days)
       IN  /\ ~StocksUpToDate(start, today)
           /\ last_date' = last
           /\ start_date' = StocksTrimmedStart(last, start, today, max_initial_days)
           /\ days' = ds
           /\ units' = StockUnits(ds)
    /\ di' = 1 /\ ticker_i' = 1
    /\ pipeline' = "stocks" /\ pc' = "stocks_loop"
    /\ writes' = <<>> /\ attempted' = {} /\ covered' = {} /\ skipped' = {}
    /\ fetched' = {} /\ write_failed' = {}
    /\ ResetFetch
    /\ UNCHANGED <<ConfigVars, ReportVars, StoreVars, global_last, interest, insecure>>
    /\ UNCHANGED pace

\* `if day.weekday() >= 5: continue`
StocksSkipWeekend ==
    /\ pc = "stocks_loop" /\ di <= Len(days)
    /\ weekday(days[di]) >= SATURDAY
    /\ di' = di + 1
    /\ UNCHANGED <<pc, last_date, start_date, days, ticker_i, global_last, interest,
                   pipeline, insecure>>
    /\ UNCHANGED <<ConfigVars, ReportVars, StoreVars, FetchVars, HistoryVars>>
    /\ UNCHANGED pace

\* results = request_with_retry(date_str): the call is entered
StocksFetchDay ==
    /\ pc = "stocks_loop" /\ di <= Len(days)
    /\ weekday(days[di]) < SATURDAY
    /\ pc' = "stocks_fetch"
    /\ ResetFetch
    /\ attempted' = attempted \cup {<<"*", days[di]>>}
    /\ UNCHANGED <<writes, units, covered, skipped>>
    /\ pace' = NoPace
    /\ UNCHANGED <<last_date, start_date, days, di, ticker_i, global_last, interest,
                   pipeline, insecure, fetched, write_failed>>
    /\ UNCHANGED <<ConfigVars, ReportVars, StoreVars>>

\* StocksNoResults with a fault: an empty result ends the run
StocksNoResults_fatal ==
    /\ pc = "stocks_batch" /\ results = <<>>
    /\ pc' = "done"
    /\ UNCHANGED <<ConfigVars, ReportVars, StoreVars, FetchVars, LoopVars, HistoryVars>>

\* `if not results: ... continue`: no write, no pacing sleep, next day
StocksNoResults ==
    /\ pc = "stocks_batch" /\ results = <<>>
    /\ di' = di + 1 /\ pc' = "stocks_loop"
    /\ covered' = IF fetch_status = "ok" THEN covered \cup {<<"*", days[di]>>} ELSE covered
    /\ skipped' = IF fetch_status = "ok" THEN skipped ELSE skipped \cup {<<"*", days[di]>>}
    /\ UNCHANGED <<writes, units, attempted>>
    /\ UNCHANGED <<last_date, start_date, days, ticker_i, global_last, interest,
                   pipeline, insecure>>
    /\ ResetFetch
    /\ UNCHANGED <<ConfigVars, ReportVars, StoreVars>>
    /\ UNCHANGED <<fetched, pace, write_failed>>

\* the `for agg in iterable_aggs` loop, then time.sleep(SLEEP_SECONDS)
StocksUpsertBatch ==
    /\ pc = "stocks_batch" /\ results # <<>>
    /\ LET aggs == IterableAggs(results)
       IN  \E fail \in 0..Len(aggs) :
             LET out == UpsertAggs(stock_daily, aggs, 1, Len(aggs), fail)
             IN  /\ stock_daily' = out.coll
                 /\ writes' = writes \o out.written
                 /\ covered' = IF out.lost THEN covered
                               ELSE covered \cup {<<"*", days[di]>>}
                 /\ skipped' = IF out.lost THEN skipped \cup {<<"*", days[di]>>}
                               ELSE skipped
                 /\ write_failed' = IF out.lost
                                    THEN write_failed \cup {<<"*", days[di]>>}
                                    ELSE write_failed
    /\ di' = di + 1 /\ pc' = "stocks_loop"
    /\ UNCHANGED <<units, attempted, index_daily>>
    /\ UNCHANGED <<last_date, start_date, days, ticker_i, global_last, interest,
                   pipeline, insecure>>
    /\ ResetFetch
    /\ UNCHANGED <<ConfigVars, ReportVars, ReportVars>>
    /\ pace' = SLEEP_SECONDS
    /\ UNCHANGED fetched

\* the process is terminated inside the `for agg` loop, after k aggregates
StocksBatchKilled ==
    /\ pc = "stocks_batch" /\ results # <<>>
    /\ LET aggs == IterableAggs(results)
       IN  \E k \in 1..(Len(aggs) - 1) :
             LET out == UpsertAggs(stock_daily, aggs, 1, k, 0)
             IN  /\ stock_daily' = out.coll
                 /\ writes' = writes \o out.written
    /\ pc' = "killed"
    /\ UNCHANGED <<units, attempted, covered, skipped, index_daily>>
    /\ UNCHANGED <<ConfigVars, ReportVars, FetchVars, LoopVars>>
    /\ UNCHANGED <<fetched, write_failed>>

\* the loop over days is exhausted: "[stocks] done"
StocksDone ==
    /\ pc = "stocks_loop" /\ di > Len(days)
    /\ pc' = "done"
    /\ UNCHANGED <<ConfigVars, ReportVars, StoreVars, FetchVars, LoopVars, HistoryVars>>

fetch_and_upsert_stocks ==
    \/ StocksNothingToDo
    \/ StocksStart
    \/ StocksSkipWeekend
    \/ StocksFetchDay
    \/ request_with_retry
    \/ StocksNoResults
    \/ StocksUpsertBatch
    \/ StocksBatchKilled
    \/ StocksDone

\* ------------------------------------------------ per-entity backfill fetcher

\* what stock.yml may hold when _load_interest_tickers() reads it: sorted(interest)
InterestChoices == {<<>>, <<"MSFT">>, <<"AAPL", "MSFT">>}

\* the DailyOpenCloseAgg of the modern and of the legacy SDK, a partial one and
\* one with no price at all; a partial one may carry a price of 0
ModernOC(price) ==
    [open |-> price, o |-> None, close |-> price, c |-> None]

LegacyOC(price) ==
    [open |-> None, o |-> price, close |-> None, c |-> price]

OpenOnlyOC(price) ==
    [open |-> price, o |-> None, close |-> None, c |-> None]

EmptyOC ==
    [open |-> None, o |-> None, close |-> None, c |-> None]

\* what client.get_daily_open_close_agg(ticker, date) may return
DailyOpenClose(tk, day) ==
    {ModernOC(p) : p \in Prices} \cup {LegacyOC(p) : p \in Prices}
    \cup {OpenOnlyOC(p) : p \in Prices \cup {0}} \cup {EmptyOC}

\* open_p / close_p = getattr(oc, full, None) or getattr(oc, short, None)
OpenPrice(oc) ==
    OrNum(oc.open, oc.o)

ClosePrice(oc) ==
    OrNum(oc.close, oc.c)

\* `if open_p is None and close_p is None: continue`
NothingMeaningful(oc) ==
    OpenPrice(oc) = None /\ ClosePrice(oc) = None

\* the key of an open/close answer that carries open or close under either name
ValidOpenClose(tk, d, oc) ==
    IF oc.open = None /\ oc.o = None /\ oc.close = None /\ oc.c = None
    THEN {} ELSE {<<tk, d>>}

\* _per_ticker_open_close: rate_limited
per_ticker_rate_limited(msg) ==
    ("429" \in msg) \/ ("rate" \in msg /\ "limit" \in msg)

\* _per_ticker_open_close under DRY_RUN: no call, None
PerTickerDryRun ==
    /\ pc = "ticker_fetch" /\ dry_run
    /\ results' = <<>> /\ fetch_status' = "dry"
    /\ pc' = "backfill_unit"
    /\ UNCHANGED <<attempt, invocations, sleeps, last_error>>
    /\ UNCHANGED <<ConfigVars, ReportVars, StoreVars, LoopVars, HistoryVars>>

\* the first call (keyword form, positional form after a TypeError) returns
PerTickerSuccess ==
    /\ pc = "ticker_fetch" /\ ~dry_run
    /\ \E oc \in DailyOpenClose(interest[ticker_i], days[di]) :
         /\ results' = <<oc>>
         /\ fetched' = fetched \cup ValidOpenClose(interest[ticker_i], days[di], oc)
    /\ invocations' = invocations + 1
    /\ UNCHANGED write_failed
    /\ fetch_status' = "ok"
    /\ pc' = "backfill_unit"
    /\ UNCHANGED <<attempt, sleeps, last_error>>
    /\ UNCHANGED <<writes, units, attempted, covered, skipped>>
    /\ UNCHANGED <<ConfigVars, ReportVars, StoreVars, LoopVars>>

\* the first call raises a rate-limit error: time.sleep(2.5), then one retry
PerTickerRateLimited ==
    /\ pc = "ticker_fetch" /\ ~dry_run
    /\ \E msg \in ErrorMessages : per_ticker_rate_limited(msg) /\ last_error' = msg
    /\ invocations' = invocations + 1
    /\ attempt' = attempt + 1
    /\ sleeps' = Append(sleeps, <<5, 2>>)
    /\ pc' = "ticker_retry"
    /\ UNCHANGED <<fetch_status, results>>
    /\ UNCHANGED <<ConfigVars, ReportVars, StoreVars, LoopVars, HistoryVars>>

\* the first call raises any other error: logged, None
PerTickerError ==
    /\ pc = "ticker_fetch" /\ ~dry_run
    /\ \E msg \in ErrorMessages : ~per_ticker_rate_limited(msg) /\ last_error' = msg
    /\ invocations' = invocations + 1
    /\ results' = <<>> /\ fetch_status' = "error"
    /\ pc' = "backfill_unit"
    /\ UNCHANGED <<attempt, sleeps>>
    /\ UNCHANGED <<ConfigVars, ReportVars, StoreVars, LoopVars, HistoryVars>>

\* the retry (keyword form only) returns
PerTickerRetrySuccess ==
    /\ pc = "ticker_retry" /\ ~legacy_sdk
    /\ \E oc \in DailyOpenClose(interest[ticker_i], days[di]) :
         /\ results' = <<oc>>
         /\ fetched' = fetched \cup ValidOpenClose(interest[ticker_i], days[di], oc)
    /\ invocations' = invocations + 1
    /\ UNCHANGED write_failed
    /\ fetch_status' = "ok"
    /\ pc' = "backfill_unit"
    /\ UNCHANGED <<attempt, sleeps, last_error>>
    /\ UNCHANGED <<writes, units, attempted, covered, skipped>>
    /\ UNCHANGED <<ConfigVars, ReportVars, StoreVars, LoopVars>>

\* the retry raises (any error; a TypeError on the legacy SDK): "retry failed", None
PerTickerRetryFailed ==
    /\ pc = "ticker_retry"
    /\ \E msg \in ErrorMessages \cup {{"TypeError"}} :
         /\ legacy_sdk => msg = {"TypeError"}
         /\ last_error' = msg
    /\ invocations' = invocations + 1
    /\ results' = <<>> /\ fetch_status' = "exhausted"
    /\ pc' = "backfill_unit"
    /\ UNCHANGED <<attempt, sleeps>>
    /\ UNCHANGED <<ConfigVars, ReportVars, StoreVars, LoopVars, HistoryVars>>

_per_ticker_open_close ==
    \/ PerTickerDryRun
    \/ PerTickerSuccess
    \/ PerTickerRateLimited
    \/ PerTickerError
    \/ PerTickerRetrySuccess
    \/ PerTickerRetryFailed

\* ------------------------------------------------ per-entity backfill orchestrator

\* the document backfill_interest_tickers builds
BackfillDoc(tk, d, oc) ==
    [ticker |-> tk, date |-> d, open |-> OpenPrice(oc), close |-> ClosePrice(oc),
     source |-> "polygon-open-close"]

\* `if last_ticker_date == global_last`, `if start_date > global_last`,
\* `if not missing_days`: the ticker is passed over
BackfillSkips(last_ticker_date, glast, dflt) ==
    \/ last_ticker_date = glast
    \/ BackfillStartDate(last_ticker_date, dflt) > glast
    \/ MissingDays(BackfillStartDate(last_ticker_date, dflt), glast) = <<>>

\* `if not interest: return`
BackfillNoInterest ==
    /\ Idle
    /\ interest' = <<>>
    /\ pipeline' = "backfill" /\ pc' = "done"
    /\ last_date' = None /\ start_date' = None /\ days' = <<>> /\ di' = 1
    /\ ticker_i' = 1 /\ global_last' = None
    /\ ResetHistory /\ ResetFetch
    /\ UNCHANGED <<ConfigVars, ReportVars, StoreVars, insecure>>
    /\ UNCHANGED pace

\* `if global_last is None: ... return`
BackfillNoGlobal ==
    /\ Idle
    /\ \E chosen \in InterestChoices : chosen # <<>> /\ interest' = chosen
    /\ get_last_stock_date(stock_daily) = None
    /\ pipeline' = "backfill" /\ pc' = "done"
    /\ last_date' = None /\ start_date' = None /\ days' = <<>> /\ di' = 1
    /\ ticker_i' = 1 /\ global_last' = None
    /\ ResetHistory /\ ResetFetch
    /\ UNCHANGED <<ConfigVars, ReportVars, StoreVars, insecure>>
    /\ UNCHANGED pace

\* backfill_interest_tickers up to the loop over sorted(interest)
BackfillStart ==
    /\ Idle
    /\ \E chosen \in InterestChoices : chosen # <<>> /\ interest' = chosen
    /\ get_last_stock_date(stock_daily) # None
    /\ global_last' = get_last_stock_date(stock_daily)
    /\ pipeline' = "backfill" /\ pc' = "backfill_ticker"
    /\ last_date' = None /\ start_date' = None /\ days' = <<>> /\ di' = 1
    /\ ticker_i' = 1
    /\ ResetHistory /\ ResetFetch
    /\ UNCHANGED <<ConfigVars, ReportVars, StoreVars, insecure>>
    /\ UNCHANGED pace

\* the ticker is up to date, or has no missing trading day: continue
BackfillSkipTicker ==
    /\ pc = "backfill_ticker" /\ ticker_i <= Len(interest)
    /\ LET last == _get_last_date_for_ticker(stock_daily, interest[ticker_i])
       IN  /\ BackfillSkips(last, global_last, default_start)
           /\ last_date' = last
    /\ ticker_i' = ticker_i + 1
    /\ UNCHANGED <<pc, start_date, days, di, global_last, interest, pipeline, insecure>>
    /\ UNCHANGED <<ConfigVars, ReportVars, StoreVars, FetchVars, HistoryVars>>
    /\ UNCHANGED pace

\* the ticker has missing trading days: they become the inner loop
BackfillTickerStart ==
    /\ pc = "backfill_ticker" /\ ticker_i <= Len(interest)
    /\ LET last  == _get_last_date_for_ticker(stock_daily, interest[ticker_i])
           start == BackfillStartDate(last, default_start)
           miss  == MissingDays(start, global_last)
       IN  /\ ~BackfillSkips(last, global_last, default_start)
           /\ last_date' = last /\ start_date' = start
           /\ days' = miss
           /\ units' = units \cup {<<interest[ticker_i], miss[i]>> : i \in 1..Len(miss)}
    /\ di' = 1 /\ pc' = "backfill_day"
    /\ UNCHANGED <<ticker_i, global_last, interest, pipeline, insecure>>
    /\ UNCHANGED <<writes, attempted, covered, skipped>>
    /\ UNCHANGED <<ConfigVars, ReportVars, StoreVars, FetchVars>>
    /\ UNCHANGED <<fetched, pace, write_failed>>

\* oc = _per_ticker_open_close(client, ticker, date_str): the call is entered
BackfillFetchDay ==
    /\ pc = "backfill_day" /\ di <= Len(days)
    /\ pc' = "ticker_fetch"
    /\ ResetFetch
    /\ attempted' = attempted \cup {<<interest[ticker_i], days[di]>>}
    /\ UNCHANGED <<writes, units, covered, skipped>>
    /\ pace' = NoPace
    /\ UNCHANGED <<last_date, start_date, days, di, ticker_i, global_last, interest,
                   pipeline, insecure, fetched, write_failed>>
    /\ UNCHANGED <<ConfigVars, ReportVars, StoreVars>>

\* `if not oc: continue`: no write, no pacing sleep, next day
BackfillNoData ==
    /\ pc = "backfill_unit" /\ results = <<>>
    /\ di' = di + 1 /\ pc' = "backfill_day"
    /\ skipped' = skipped \cup {<<interest[ticker_i], days[di]>>}
    /\ UNCHANGED <<writes, units, attempted, covered>>
    /\ UNCHANGED <<last_date, start_date, days, ticker_i, global_last, interest,
                   pipeline, insecure>>
    /\ ResetFetch
    /\ UNCHANGED <<ConfigVars, ReportVars, StoreVars>>
    /\ UNCHANGED <<fetched, pace, write_failed>>

\* neither open nor close resolves: continue
BackfillDrop ==
    /\ pc = "backfill_unit" /\ results # <<>>
    /\ NothingMeaningful(results[1])
    /\ di' = di + 1 /\ pc' = "backfill_day"
    /\ skipped' = skipped \cup {<<interest[ticker_i], days[di]>>}
    /\ UNCHANGED <<writes, units, attempted, covered>>
    /\ UNCHANGED <<last_date, start_date, days, ticker_i, global_last, interest,
                   pipeline, insecure>>
    /\ ResetFetch
    /\ UNCHANGED <<ConfigVars, ReportVars, StoreVars>>
    /\ UNCHANGED <<fetched, pace, write_failed>>

\* the document is upserted, then time.sleep(0.25)
BackfillUpsert ==
    /\ pc = "backfill_unit" /\ results # <<>>
    /\ ~NothingMeaningful(results[1])
    /\ LET doc == BackfillDoc(interest[ticker_i], days[di], results[1])
       IN  /\ stock_daily' = update_one(stock_daily, doc)
           /\ writes' = Append(writes, <<doc.ticker, doc.date>>)
    /\ covered' = covered \cup {<<interest[ticker_i], days[di]>>}
    /\ di' = di + 1 /\ pc' = "backfill_day"
    /\ UNCHANGED <<units, attempted, skipped, index_daily>>
    /\ UNCHANGED <<last_date, start_date, days, ticker_i, global_last, interest,
                   pipeline, insecure>>
    /\ ResetFetch
    /\ UNCHANGED <<ConfigVars, ReportVars, ReportVars>>
    /\ pace' = BACKFILL_PACE
    /\ UNCHANGED <<fetched, write_failed>>

\* update_one raises PyMongoError: logged, then time.sleep(0.25)
BackfillWriteFailed ==
    /\ pc = "backfill_unit" /\ results # <<>>
    /\ ~NothingMeaningful(results[1])
    /\ skipped' = skipped \cup {<<interest[ticker_i], days[di]>>}
    /\ di' = di + 1 /\ pc' = "backfill_day"
    /\ UNCHANGED <<writes, units, attempted, covered>>
    /\ UNCHANGED <<last_date, start_date, days, ticker_i, global_last, interest,
                   pipeline, insecure>>
    /\ ResetFetch
    /\ UNCHANGED <<ConfigVars, ReportVars, StoreVars>>
    /\ pace' = BACKFILL_PACE
    /\ UNCHANGED fetched
    /\ write_failed' = write_failed \cup {<<interest[ticker_i], days[di]>>}

\* the ticker's missing days are exhausted: next ticker
BackfillTickerDone ==
    /\ pc = "backfill_day" /\ di > Len(days)
    /\ ticker_i' = ticker_i + 1 /\ pc' = "backfill_ticker"
    /\ UNCHANGED <<last_date, start_date, days, di, global_last, interest, pipeline,
                   insecure>>
    /\ UNCHANGED <<ConfigVars, ReportVars, StoreVars, FetchVars, HistoryVars>>
    /\ UNCHANGED pace

\* the loop over the interest tickers is exhausted
BackfillDone ==
    /\ pc = "backfill_ticker" /\ ticker_i > Len(interest)
    /\ pc' = "done"
    /\ UNCHANGED <<ConfigVars, ReportVars, StoreVars, FetchVars, LoopVars, HistoryVars>>

backfill_interest_tickers ==
    \/ BackfillNoInterest
    \/ BackfillNoGlobal
    \/ BackfillStart
    \/ BackfillSkipTicker
    \/ BackfillTickerStart
    \/ BackfillFetchDay
    \/ _per_ticker_open_close
    \/ BackfillNoData
    \/ BackfillDrop
    \/ BackfillUpsert
    \/ BackfillWriteFailed
    \/ BackfillTickerDone
    \/ BackfillDone

\* ------------------------------------------------ index-history orchestrator

\* what str(e) of a yfinance failure holds
IndexErrorMessages == {{"SSL certificate"}, {"self signed certificate"}, {"timed out"}}

\* fetch_and_upsert_indices: is_cert_err
is_cert_err(msg) ==
    ("SSL certificate" \in msg) \/ ("self signed certificate" \in msg)

\* what yf_ticker.history(start, end) may return: no row, or one row per trading
\* day of the window, oldest first
History(tk, start, end_excl) ==
    LET win  == SelectSeq(IndexWindow(start, end_excl), _is_trading_day)
        full == {[i \in 1..Len(win) |-> [date |-> win[i], Open |-> p, Close |-> p]] :
                   p \in Prices}
    IN  {<<>>} \cup full

\* the document fetch_and_upsert_indices builds from a row
IndexDoc(tk, row) ==
    [ticker |-> tk, date |-> row.date, open |-> row.Open, close |-> row.Close,
     source |-> "yfinance"]

\* the `for idx, row in hist.iterrows()` loop over rows[i..n]; the write of
\* rows[fail] raises PyMongoError, which is logged and the loop goes on
RECURSIVE UpsertRows(_, _, _, _, _, _)
UpsertRows(coll, tk, rows, i, n, fail) ==
    IF i > n THEN [coll |-> coll, written |-> <<>>, lost |-> FALSE]
    ELSE IF i = fail
         THEN [UpsertRows(coll, tk, rows, i + 1, n, fail) EXCEPT !.lost = TRUE]
    ELSE LET doc  == IndexDoc(tk, rows[i])
             rest == UpsertRows(update_one(coll, doc), tk, rows, i + 1, n, fail)
         IN  [rest EXCEPT !.written = <<(<<doc.ticker, doc.date>>)>> \o @]

\* fetch_and_upsert_indices up to the loop over index_list
IndicesStart ==
    /\ Idle
    /\ pipeline' = "indices" /\ pc' = "index_ticker"
    /\ last_date' = None /\ start_date' = None /\ days' = <<>> /\ di' = 1
    /\ ticker_i' = 1
    /\ ResetHistory /\ ResetFetch
    /\ UNCHANGED <<ConfigVars, ReportVars, StoreVars, global_last, interest, insecure>>
    /\ UNCHANGED pace

\* `if start_date > today: continue`
IndexSkipTicker ==
    /\ pc = "index_ticker" /\ ticker_i <= Len(index_list)
    /\ LET last  == get_last_index_date(index_daily, index_list[ticker_i])
           start == IndexStartDate(last, default_start)
       IN  /\ IndexUpToDate(start, today)
           /\ last_date' = last /\ start_date' = start
    /\ ticker_i' = ticker_i + 1
    /\ UNCHANGED <<pc, days, di, global_last, interest, pipeline, insecure>>
    /\ UNCHANGED <<ConfigVars, ReportVars, StoreVars, FetchVars, HistoryVars>>
    /\ UNCHANGED pace

\* hist = yf_ticker.history(start=start_date, end=end_date): the call is entered
IndexFetch ==
    /\ pc = "index_ticker" /\ ticker_i <= Len(index_list)
    /\ LET last  == get_last_index_date(index_daily, index_list[ticker_i])
           start == IndexStartDate(last, default_start)
       IN  /\ ~IndexUpToDate(start, today)
           /\ last_date' = last /\ start_date' = start
           /\ days' = IndexWindow(start, IndexEndDate(today))
    /\ pc' = "index_fetch"
    /\ ResetFetch
    /\ units' = units \cup {<<index_list[ticker_i], None>>}
    /\ attempted' = attempted \cup {<<index_list[ticker_i], None>>}
    /\ UNCHANGED <<writes, covered, skipped>>
    /\ UNCHANGED <<di, ticker_i, global_last, interest, pipeline, insecure>>
    /\ UNCHANGED <<ConfigVars, ReportVars, StoreVars>>
    /\ pace' = NoPace
    /\ UNCHANGED <<fetched, write_failed>>

\* history() returns
IndexHistoryOk ==
    /\ pc = "index_fetch"
    /\ \E hist \in History(index_list[ticker_i], start_date, IndexEndDate(today)) :
         /\ results' = hist
         /\ fetched' = fetched \cup {<<index_list[ticker_i], hist[i].date>> :
                                       i \in 1..Len(hist)}
    /\ invocations' = invocations + 1
    /\ UNCHANGED write_failed
    /\ fetch_status' = "ok"
    /\ pc' = "index_rows"
    /\ UNCHANGED <<attempt, sleeps, last_error>>
    /\ UNCHANGED <<writes, units, attempted, covered, skipped>>
    /\ UNCHANGED <<ConfigVars, ReportVars, StoreVars, LoopVars>>

\* history() raises a certificate error: the shared YfData gets a verify=False
\* session and history() is called again
IndexCertError ==
    /\ pc = "index_fetch"
    /\ \E msg \in IndexErrorMessages : is_cert_err(msg) /\ last_error' = msg
    /\ invocations' = invocations + 1
    /\ insecure' = TRUE
    /\ pc' = "index_insecure"
    /\ UNCHANGED <<attempt, sleeps, fetch_status, results>>
    /\ UNCHANGED <<last_date, start_date, days, di, ticker_i, global_last, interest,
                   pipeline>>
    /\ UNCHANGED <<ConfigVars, ReportVars, StoreVars, HistoryVars>>
    /\ UNCHANGED pace

\* history() raises a certificate error and the insecure session cannot be set
\* up (the import of curl_cffi or Session() raises): "failed insecure retry",
\* continue
IndexInsecureUnavailable ==
    /\ pc = "index_fetch"
    /\ \E msg \in IndexErrorMessages : is_cert_err(msg) /\ last_error' = msg
    /\ invocations' = invocations + 1
    /\ skipped' = skipped \cup {<<index_list[ticker_i], None>>}
    /\ ticker_i' = ticker_i + 1 /\ pc' = "index_ticker"
    /\ fetch_status' = "error"
    /\ UNCHANGED <<attempt, sleeps, results>>
    /\ UNCHANGED <<writes, units, attempted, covered>>
    /\ UNCHANGED <<last_date, start_date, days, di, global_last, interest, pipeline,
                   insecure>>
    /\ UNCHANGED <<ConfigVars, ReportVars, StoreVars>>
    /\ UNCHANGED <<fetched, pace, write_failed>>

\* history() raises any other error: logged, continue
IndexHistoryError ==
    /\ pc = "index_fetch"
    /\ \E msg \in IndexErrorMessages : ~is_cert_err(msg) /\ last_error' = msg
    /\ invocations' = invocations + 1
    /\ skipped' = skipped \cup {<<index_list[ticker_i], None>>}
    /\ ticker_i' = ticker_i + 1 /\ pc' = "index_ticker"
    /\ fetch_status' = "error"
    /\ UNCHANGED <<attempt, sleeps, results>>
    /\ UNCHANGED <<writes, units, attempted, covered>>
    /\ UNCHANGED <<last_date, start_date, days, di, global_last, interest, pipeline,
                   insecure>>
    /\ UNCHANGED <<ConfigVars, ReportVars, StoreVars>>
    /\ UNCHANGED <<fetched, pace, write_failed>>

\* the insecure retry returns
IndexInsecureOk ==
    /\ pc = "index_insecure"
    /\ \E hist \in History(index_list[ticker_i], start_date, IndexEndDate(today)) :
         /\ results' = hist
         /\ fetched' = fetched \cup {<<index_list[ticker_i], hist[i].date>> :
                                       i \in 1..Len(hist)}
    /\ invocations' = invocations + 1
    /\ UNCHANGED write_failed
    /\ fetch_status' = "ok"
    /\ pc' = "index_rows"
    /\ UNCHANGED <<attempt, sleeps, last_error>>
    /\ UNCHANGED <<writes, units, attempted, covered, skipped>>
    /\ UNCHANGED <<ConfigVars, ReportVars, StoreVars, LoopVars>>

\* the insecure retry raises: "failed insecure retry", continue
IndexInsecureFailed ==
    /\ pc = "index_insecure"
    /\ \E msg \in IndexErrorMessages : last_error' = msg
    /\ invocations' = invocations + 1
    /\ skipped' = skipped \cup {<<index_list[ticker_i], None>>}
    /\ ticker_i' = ticker_i + 1 /\ pc' = "index_ticker"
    /\ fetch_status' = "error"
    /\ UNCHANGED <<attempt, sleeps, results>>
    /\ UNCHANGED <<writes, units, attempted, covered>>
    /\ UNCHANGED <<last_date, start_date, days, di, global_last, interest, pipeline,
                   insecure>>
    /\ UNCHANGED <<ConfigVars, ReportVars, StoreVars>>
    /\ UNCHANGED <<fetched, pace, write_failed>>

\* `if hist.empty: continue`: no write, no pacing sleep, next ticker
IndexEmpty ==
    /\ pc = "index_rows" /\ results = <<>>
    /\ covered' = covered \cup {<<index_list[ticker_i], None>>}
    /\ ticker_i' = ticker_i + 1 /\ pc' = "index_ticker"
    /\ ResetFetch
    /\ UNCHANGED <<writes, units, attempted, skipped>>
    /\ UNCHANGED <<last_date, start_date, days, di, global_last, interest, pipeline,
                   insecure>>
    /\ UNCHANGED <<ConfigVars, ReportVars, StoreVars>>
    /\ UNCHANGED <<fetched, pace, write_failed>>

\* the `for idx, row in hist.iterrows()` loop, then time.sleep(0.2)
IndexUpsertRows ==
    /\ pc = "index_rows" /\ results # <<>>
    /\ \E fail \in 0..Len(results) :
         LET out == UpsertRows(index_daily, index_list[ticker_i], results, 1,
                               Len(results), fail)
         IN  /\ index_daily' = out.coll
             /\ writes' = writes \o out.written
             /\ covered' = IF out.lost THEN covered
                           ELSE covered \cup {<<index_list[ticker_i], None>>}
             /\ skipped' = IF out.lost THEN skipped \cup {<<index_list[ticker_i], None>>}
                           ELSE skipped
             /\ write_failed' = IF out.lost
                                THEN write_failed \cup {<<index_list[ticker_i], None>>}
                                ELSE write_failed
    /\ ticker_i' = ticker_i + 1 /\ pc' = "index_ticker"
    /\ ResetFetch
    /\ UNCHANGED <<units, attempted, stock_daily>>
    /\ UNCHANGED <<last_date, start_date, days, di, global_last, interest, pipeline,
                   insecure>>
    /\ UNCHANGED <<ConfigVars, ReportVars, ReportVars>>
    /\ pace' = INDEX_PACE
    /\ UNCHANGED fetched

\* the process is terminated inside the `for idx, row` loop, after k rows
IndexRowsKilled ==
    /\ pc = "index_rows" /\ Len(results) > 1
    /\ \E k \in 1..(Len(results) - 1) :
         LET out == UpsertRows(index_daily, index_list[ticker_i], results, 1, k, 0)
         IN  /\ index_daily' = out.coll
             /\ writes' = writes \o out.written
    /\ pc' = "killed"
    /\ UNCHANGED <<units, attempted, covered, skipped, stock_daily>>
    /\ UNCHANGED <<ConfigVars, ReportVars, FetchVars, LoopVars>>
    /\ UNCHANGED <<fetched, write_failed>>

\* the loop over index_list is exhausted: "[indices] done"
IndicesDone ==
    /\ pc = "index_ticker" /\ ticker_i > Len(index_list)
    /\ pc' = "done"
    /\ UNCHANGED <<ConfigVars, ReportVars, StoreVars, FetchVars, LoopVars, HistoryVars>>

fetch_and_upsert_indices ==
    \/ IndicesStart
    \/ IndexSkipTicker
    \/ IndexFetch
    \/ IndexHistoryOk
    \/ IndexCertError
    \/ IndexInsecureUnavailable
    \/ IndexHistoryError
    \/ IndexInsecureOk
    \/ IndexInsecureFailed
    \/ IndexEmpty
    \/ IndexUpsertRows
    \/ IndexRowsKilled
    \/ IndicesDone

\* ------------------------------------------------------------- environment

\* the memory of a process that has ended: only the store and the clock are left
Wiped ==
    /\ pc' = "idle" /\ pipeline' = "none"
    /\ last_date' = None /\ start_date' = None /\ days' = <<>> /\ di' = 1
    /\ ticker_i' = 1 /\ global_last' = None /\ interest' = <<>>
    /\ insecure' = FALSE /\ pace' = NoPace
    /\ ResetFetch /\ ResetHistory

\* process termination between two steps of a run
Kill ==
    /\ pc \notin {"idle", "done", "killed"}
    /\ Wiped
    /\ UNCHANGED <<ConfigVars, ReportVars, StoreVars>>

\* the process is gone, after a completed run or a kill
Exit ==
    /\ pc \in {"done", "killed"}
    /\ Wiped
    /\ UNCHANGED <<ConfigVars, ReportVars, StoreVars>>

\* midnight UTC passes between two runs
NextDay ==
    /\ Idle /\ today < MaxDay
    /\ today' = today + 1
    /\ UNCHANGED ReportVars
    /\ UNCHANGED <<max_retries, default_start, max_initial_days, dry_run, legacy_sdk,
                   store_reachable,
                   index_list>>
    /\ UNCHANGED <<pc, StoreVars, FetchVars, LoopVars, HistoryVars>>

\* ------------------------------------------------------------ specification

\* the configurations the runs are exercised with: the stock pipelines live with
\* no index configured, and the index pipeline with the stock pipelines in DRY_RUN
\* (fetch_and_upsert_indices does not read DRY_RUN), over an empty stock collection
\* or one an earlier live run has left a document in.  The two sides share no
\* collection and no variable.
SeedStock ==
    {[ticker |-> "AAPL", date |-> 0, open |-> 150, close |-> 150, source |-> "polygon"]}

RunConfigs ==
    {<<FALSE, <<>>, {}>>, <<TRUE, INDEX_LIST, {}>>, <<TRUE, INDEX_LIST, SeedStock>>}

\* the locals of a process that has not started a pipeline
FreshLocals ==
    /\ last_date = None /\ start_date = None /\ days = <<>> /\ di = 1 /\ ticker_i = 1
    /\ global_last = None /\ interest = <<>> /\ insecure = FALSE
    /\ attempt = 0 /\ invocations = 0 /\ sleeps = <<>>
    /\ fetch_status = "none" /\ last_error = NoError /\ results = <<>>
    /\ writes = <<>> /\ units = {} /\ attempted = {} /\ covered = {} /\ skipped = {}
    /\ fetched = {} /\ pace = NoPace /\ write_failed = {}
    /\ NoReport

Init ==
    /\ today \in 0..MaxDay
    /\ max_retries = MaxRunRetries
    /\ default_start = 0
    /\ max_initial_days = RunInitialDays
    /\ \E cfg \in RunConfigs :
         dry_run = cfg[1] /\ index_list = cfg[2] /\ stock_daily = cfg[3]
    /\ legacy_sdk = FALSE /\ store_reachable = TRUE
    /\ index_daily = {}
    /\ pc = "idle" /\ pipeline = "none"
    /\ FreshLocals

Next ==
    \/ fetch_and_upsert_stocks
    \/ backfill_interest_tickers
    \/ fetch_and_upsert_indices
    \/ Kill
    \/ Exit
    \/ NextDay

Spec ==
    Init /\ [][Next]_vars

\* ----------------------------------------- the fetchers on their own (SpecFetch)

\* a fetch of one unit is entered, with any retry budget and either SDK
InitFetch ==
    /\ today = 0 /\ default_start = 0 /\ max_initial_days = RunInitialDays
    /\ max_retries \in 0..MaxRetries
    /\ dry_run \in BOOLEAN
    /\ legacy_sdk \in BOOLEAN
    /\ store_reachable = TRUE
    /\ index_list = <<>>
    /\ stock_daily = {} /\ index_daily = {}
    /\ pc \in {"stocks_fetch", "ticker_fetch"}
    /\ pipeline = (IF pc = "stocks_fetch" THEN "stocks" ELSE "backfill")
    /\ last_date = None /\ start_date = 0 /\ days = <<0>> /\ di = 1 /\ ticker_i = 1
    /\ global_last = (IF pc = "stocks_fetch" THEN None ELSE 0)
    /\ interest = (IF pc = "stocks_fetch" THEN <<>> ELSE <<"AAPL">>)
    /\ insecure = FALSE
    /\ attempt = 0 /\ invocations = 0 /\ sleeps = <<>>
    /\ fetch_status = "none" /\ last_error = NoError /\ results = <<>>
    /\ writes = <<>> /\ covered = {} /\ skipped = {}
    /\ fetched = {} /\ pace = NoPace /\ write_failed = {}
    /\ NoReport
    /\ units = {<<(IF pc = "stocks_fetch" THEN "*" ELSE "AAPL"), 0>>}
    /\ attempted = units

NextFetch ==
    \/ request_with_retry
    \/ _per_ticker_open_close

SpecFetch ==
    InitFetch /\ [][NextFetch]_vars

\* ------------------------------------- the gap calculator on its own (SpecGap)

\* the spec's instance: default_start = 2025-01-01 (day 0 here), today =
\* 2025-06-01 (151 days later), max_initial_days = 90
GapToday == 0..MaxGapDay \cup {151}
GapDefaultStart == {0, 2, MaxGapDay + 1}
GapMaxInitial == {0, 2, 90}

InitGap ==
    /\ today \in GapToday
    /\ default_start \in GapDefaultStart
    /\ max_initial_days \in GapMaxInitial
    /\ last_date \in {None} \cup (0..MaxGapDay)
    /\ max_retries = 0 /\ dry_run = FALSE /\ legacy_sdk = FALSE /\ index_list = <<>>
    /\ store_reachable = TRUE
    /\ stock_daily = {} /\ index_daily = {}
    /\ pc = "gap" /\ pipeline = "none"
    /\ start_date = None /\ days = <<>> /\ di = 1 /\ ticker_i = 1
    /\ global_last = None /\ interest = <<>> /\ insecure = FALSE
    /\ attempt = 0 /\ invocations = 0 /\ sleeps = <<>>
    /\ fetch_status = "none" /\ last_error = NoError /\ results = <<>>
    /\ writes = <<>> /\ units = {} /\ attempted = {} /\ covered = {} /\ skipped = {}
    /\ fetched = {} /\ pace = NoPace /\ write_failed = {}
    /\ NoReport

\* fetch_and_upsert_stocks from the cursor to `days`
ComputeStocksGap ==
    /\ pc = "gap"
    /\ LET start == StocksStartDate(last_date, default_start)
       IN  start_date' = IF StocksUpToDate(start, today) THEN start
                         ELSE StocksTrimmedStart(last_date, start, today, max_initial_days)
    /\ days' = StocksDays(last_date, today, default_start, max_initial_days)
    /\ pc' = "gap_stocks" /\ pipeline' = "stocks"
    /\ UNCHANGED <<last_date, di, ticker_i, global_last, interest, insecure>>
    /\ UNCHANGED <<ConfigVars, ReportVars, StoreVars, FetchVars, HistoryVars>>
    /\ UNCHANGED pace

\* fetch_and_upsert_indices from the cursor to the window of history()
ComputeIndexGap ==
    /\ pc = "gap"
    /\ LET start == IndexStartDate(last_date, default_start)
       IN  /\ start_date' = start
           /\ days' = IF IndexUpToDate(start, today) THEN <<>>
                      ELSE IndexWindow(start, IndexEndDate(today))
    /\ pc' = "gap_index" /\ pipeline' = "indices"
    /\ UNCHANGED <<last_date, di, ticker_i, global_last, interest, insecure>>
    /\ UNCHANGED <<ConfigVars, ReportVars, StoreVars, FetchVars, HistoryVars>>
    /\ UNCHANGED pace

\* backfill_interest_tickers from a ticker's cursor to missing_days, against a
\* global maximum date that is not in the future
ComputeBackfillGap ==
    /\ pc = "gap"
    /\ \E g \in {t \in GapToday : t <= today} :
         LET start == BackfillStartDate(last_date, default_start)
         IN  /\ global_last' = g
             /\ start_date' = start
             /\ days' = IF BackfillSkips(last_date, g, default_start) THEN <<>>
                        ELSE MissingDays(start, g)
    /\ pc' = "gap_backfill" /\ pipeline' = "backfill"
    /\ UNCHANGED <<last_date, di, ticker_i, interest, insecure>>
    /\ UNCHANGED <<ConfigVars, ReportVars, StoreVars, FetchVars, HistoryVars>>
    /\ UNCHANGED pace

NextGap ==
    \/ ComputeStocksGap
    \/ ComputeIndexGap
    \/ ComputeBackfillGap

SpecGap ==
    InitGap /\ [][NextGap]_vars

\* --------------------------------------- the upsert sink on its own (SpecSink)

SinkPrices == {150, 151}
SinkIndexes == {"GSPC"}
\* the day the sink's documents are dated
SinkDays == {1}

\* "ingested_at": datetime.now(timezone.utc), the last field of every document
\* the pipelines build; the clock is the day.  The runs of the other
\* specifications carry the documents without it.
WithIngestedAt(doc, now) ==
    [f \in DOMAIN doc \cup {"ingested_at"} |->
       IF f = "ingested_at" THEN now ELSE doc[f]]

\* the sink starts on empty collections
InitSink ==
    /\ today = 1 /\ default_start = 0 /\ max_initial_days = RunInitialDays
    /\ max_retries = 0 /\ dry_run = FALSE /\ legacy_sdk = FALSE /\ index_list = <<>>
    /\ store_reachable = TRUE
    /\ stock_daily = {} /\ index_daily = {}
    /\ pc = "sink" /\ pipeline = "none"
    /\ FreshLocals

\* the write of fetch_and_upsert_stocks, for any accepted aggregate
SinkStocks ==
    /\ pc = "sink" /\ Len(writes) < MaxSinkWrites
    /\ \E tk \in Tickers, p \in SinkPrices, d \in SinkDays :
         \E agg \in {ModernAgg(tk, d, p), LegacyAgg(tk, d, p)} :
           LET doc == WithIngestedAt(StockDoc(agg), today)
           IN  /\ stock_daily' = update_one(stock_daily, doc)
               /\ writes' = Append(writes, <<doc.ticker, doc.date>>)
               /\ results' = <<doc>>
    /\ pipeline' = "stocks"
    /\ UNCHANGED <<pc, index_daily, units, attempted, covered, skipped>>
    /\ UNCHANGED <<attempt, invocations, sleeps, fetch_status, last_error>>
    /\ UNCHANGED <<last_date, start_date, days, di, ticker_i, global_last, interest,
                   insecure>>
    /\ UNCHANGED <<ConfigVars, ReportVars, ReportVars>>
    /\ UNCHANGED <<fetched, pace, write_failed>>

\* the write of backfill_interest_tickers, for any kept open/close
SinkBackfill ==
    /\ pc = "sink" /\ Len(writes) < MaxSinkWrites
    /\ \E tk \in Tickers, p \in SinkPrices, d \in SinkDays :
         \E oc \in {ModernOC(p), OpenOnlyOC(p)} :
           LET doc == WithIngestedAt(BackfillDoc(tk, d, oc), today)
           IN  /\ stock_daily' = update_one(stock_daily, doc)
               /\ writes' = Append(writes, <<doc.ticker, doc.date>>)
               /\ results' = <<doc>>
    /\ pipeline' = "backfill"
    /\ UNCHANGED <<pc, index_daily, units, attempted, covered, skipped>>
    /\ UNCHANGED <<attempt, invocations, sleeps, fetch_status, last_error>>
    /\ UNCHANGED <<last_date, start_date, days, di, ticker_i, global_last, interest,
                   insecure>>
    /\ UNCHANGED <<ConfigVars, ReportVars, ReportVars>>
    /\ UNCHANGED <<fetched, pace, write_failed>>

\* the write of fetch_and_upsert_indices, for any row
SinkIndices ==
    /\ pc = "sink" /\ Len(writes) < MaxSinkWrites
    /\ \E tk \in SinkIndexes, p \in SinkPrices, d \in SinkDays :
         LET doc == WithIngestedAt(IndexDoc(tk, [date |-> d, Open |-> p, Close |-> p]),
                                   today)
         IN  /\ index_daily' = update_one(index_daily, doc)
             /\ writes' = Append(writes, <<doc.ticker, doc.date>>)
             /\ results' = <<doc>>
    /\ pipeline' = "indices"
    /\ UNCHANGED <<pc, stock_daily, units, attempted, covered, skipped>>
    /\ UNCHANGED <<attempt, invocations, sleeps, fetch_status, last_error>>
    /\ UNCHANGED <<last_date, start_date, days, di, ticker_i, global_last, interest,
                   insecure>>
    /\ UNCHANGED <<ConfigVars, ReportVars, ReportVars>>
    /\ UNCHANGED <<fetched, pace, write_failed>>

\* the clock moves on between two writes
SinkTick ==
    /\ pc = "sink" /\ today < MaxSinkClock
    /\ today' = today + 1
    /\ UNCHANGED ReportVars
    /\ UNCHANGED <<max_retries, default_start, max_initial_days, dry_run, legacy_sdk,
                   store_reachable,
                   index_list>>
    /\ UNCHANGED <<pc, StoreVars, FetchVars, LoopVars, HistoryVars>>

NextSink ==
    \/ SinkStocks
    \/ SinkBackfill
    \/ SinkIndices
    \/ SinkTick

SpecSink ==
    InitSink /\ [][NextSink]_vars

\* ------------------------------- a run two days after the cursor (SpecE2E)

\* the cursors the end-to-end runs start from: a Monday (1970-01-05), and a
\* Friday (1970-01-09), the weekday of the spec's instance 2025-01-10
E2ECursors == {4, 8}

\* both collections hold one document per ticker, dated c
E2EStocks(c) ==
    {[ticker |-> tk, date |-> c, open |-> 150, close |-> 150, source |-> "polygon"] :
       tk \in Tickers}

E2EIndices(c) ==
    {[ticker |-> INDEX_LIST[i], date |-> c, open |-> 150, close |-> 150,
      source |-> "yfinance"] : i \in 1..Len(INDEX_LIST)}

InitE2E ==
    /\ \E c \in E2ECursors :
         /\ today = c + 2
         /\ stock_daily = E2EStocks(c)
         /\ index_daily = E2EIndices(c)
    /\ \E cfg \in RunConfigs : dry_run = cfg[1] /\ index_list = cfg[2]
    /\ max_retries = MaxRunRetries
    /\ default_start = 0
    /\ max_initial_days = RunInitialDays
    /\ legacy_sdk = FALSE /\ store_reachable = TRUE
    /\ pc = "idle" /\ pipeline = "none"
    /\ FreshLocals

NextE2E ==
    \/ fetch_and_upsert_stocks
    \/ fetch_and_upsert_indices
    \/ Kill
    \/ Exit

SpecE2E ==
    InitE2E /\ [][NextE2E]_vars

\* ------------------------------------ the normalizer on its own (SpecNorm)

\* what the full-name and the abbreviated attribute of a raw record may hold:
\* absent (None), zero, or a price
FullValues == {None, 0, 150}
ShortValues == {None, 0, 151}

\* a raw record with a ticker and a timestamp and any open/o/close/c
RawRecords ==
    {[ticker |-> "AAPL", T |-> NoTicker, timestamp |-> MS_PER_DAY, t |-> None,
      open |-> fo, o |-> so, close |-> fc, c |-> sc] :
       fo \in FullValues, so \in ShortValues, fc \in FullValues, sc \in ShortValues}

InitNorm ==
    /\ today = 1 /\ default_start = 0 /\ max_initial_days = RunInitialDays
    /\ max_retries = 0 /\ dry_run = FALSE /\ legacy_sdk = FALSE /\ index_list = <<>>
    /\ store_reachable = TRUE
    /\ stock_daily = {} /\ index_daily = {}
    /\ pc = "norm" /\ pipeline = "none"
    /\ last_date = None /\ start_date = None /\ days = <<>> /\ di = 1 /\ ticker_i = 1
    /\ global_last = None /\ interest = <<>> /\ insecure = FALSE
    /\ attempt = 0 /\ invocations = 0 /\ sleeps = <<>>
    /\ fetch_status = "none" /\ last_error = NoError
    /\ results \in {<<raw>> : raw \in RawRecords}
    /\ writes = <<>> /\ units = {} /\ attempted = {} /\ covered = {} /\ skipped = {}
    /\ fetched = {} /\ pace = NoPace /\ write_failed = {}
    /\ NoReport

\* fetch_and_upsert_stocks builds its document from the aggregate
NormalizeStock ==
    /\ pc = "norm"
    /\ results' = <<results[1], StockDoc(results[1])>>
    /\ pc' = "norm_stock" /\ pipeline' = "stocks"
    /\ UNCHANGED <<last_date, start_date, days, di, ticker_i, global_last, interest,
                   insecure, pace>>
    /\ UNCHANGED <<attempt, invocations, sleeps, fetch_status, last_error>>
    /\ UNCHANGED <<ConfigVars, ReportVars, StoreVars, HistoryVars>>

\* backfill_interest_tickers builds its document from the open/close answer,
\* or drops the answer when neither price resolves
NormalizeBackfill ==
    /\ pc = "norm"
    /\ results' = IF NothingMeaningful(results[1]) THEN <<results[1]>>
                  ELSE <<results[1], BackfillDoc("AAPL", today, results[1])>>
    /\ pc' = "norm_backfill" /\ pipeline' = "backfill"
    /\ UNCHANGED <<last_date, start_date, days, di, ticker_i, global_last, interest,
                   insecure, pace>>
    /\ UNCHANGED <<attempt, invocations, sleeps, fetch_status, last_error>>
    /\ UNCHANGED <<ConfigVars, ReportVars, StoreVars, HistoryVars>>

NextNorm ==
    \/ NormalizeStock
    \/ NormalizeBackfill

SpecNorm ==
    InitNorm /\ [][NextNorm]_vars

\* ------------------------------------------- main() as a whole (SpecMain)

\* day main() runs on: a Monday, with a Friday inside the catch-up window
MainDay == 4

\* a process enters main(); the store answers it or does not
InitMain ==
    /\ today = MainDay
    /\ max_retries = MaxRunRetries
    /\ default_start = 0
    /\ max_initial_days = RunInitialDays
    /\ \E cfg \in RunConfigs :
         dry_run = cfg[1] /\ index_list = cfg[2] /\ stock_daily = cfg[3]
    /\ legacy_sdk = FALSE
    /\ store_reachable \in BOOLEAN
    /\ index_daily = {}
    /\ pc = "main_start" /\ pipeline = "none"
    /\ FreshLocals

\* EnsureIndexesRaises with a fault: the error of create_index is swallowed and
\* main() goes on to the pipelines
EnsureIndexesRaises_swallowed ==
    /\ pc = "main_start" /\ ~store_reachable
    /\ pc' = "idle"
    /\ UNCHANGED <<ConfigVars, ReportVars, StoreVars, FetchVars, LoopVars, HistoryVars>>

\* MongoClient(MONGO_URI) connects lazily; _ensure_indexes(db) is the first
\* operation that needs the server.  With the server out of reach create_index
\* raises, nothing in main() catches it, and the process ends.
EnsureIndexesRaises ==
    /\ pc = "main_start" /\ ~store_reachable
    /\ pc' = "aborted"
    /\ UNCHANGED <<ConfigVars, ReportVars, StoreVars, FetchVars, LoopVars, HistoryVars>>

\* _ensure_indexes(db): both unique (ticker, date) indexes exist afterwards
EnsureIndexes ==
    /\ pc = "main_start" /\ store_reachable
    /\ pc' = "idle"
    /\ UNCHANGED <<ConfigVars, ReportVars, StoreVars, FetchVars, LoopVars, HistoryVars>>

\* a pipeline function returns to main()
MainReturn ==
    /\ pc = "done" /\ pipeline \in {"stocks", "backfill"}
    /\ pc' = "idle"
    /\ UNCHANGED <<ConfigVars, ReportVars, StoreVars, FetchVars, LoopVars, HistoryVars>>

\* fetch_and_upsert_stocks(db), the first call of main()
MainStocks ==
    /\ Idle => pipeline = "none"
    /\ fetch_and_upsert_stocks

\* backfill_interest_tickers(db), after the stocks pipeline
MainBackfill ==
    /\ Idle => pipeline = "stocks"
    /\ backfill_interest_tickers

\* fetch_and_upsert_indices(db), after the backfill
MainIndices ==
    /\ Idle => pipeline = "backfill"
    /\ fetch_and_upsert_indices

main ==
    \/ EnsureIndexes
    \/ EnsureIndexesRaises
    \/ MainStocks
    \/ MainBackfill
    \/ MainIndices
    \/ MainReturn

SpecMain ==
    InitMain /\ [][main]_vars

\* --------------------------- common.py: load_context's week window (SpecContext)

\* LOOKBACK_DAYS, by default
LOOKBACK_DAYS == 180
\* last day load_context is exercised on; the first is a Thursday
MaxContextDay == 14
ContextDays == 7..MaxContextDay

\* rows = list(index_coll.find(query, idx_proj)): the index records of the
\* configured tickers dated within [START_DATE, END_DATE]; none when the store is
\* out of reach (`except Exception`)
ContextRows ==
    IF ~store_reachable THEN {}
    ELSE {r \in index_daily : /\ r.ticker \in SeqToSet(index_list)
                              /\ r.date >= today - LOOKBACK_DAYS
                              /\ r.date <= today}

\* last_day = all_dates.max().date()
LastPriceDay ==
    MaxOf({r.date : r \in ContextRows})

\* `if last_day.weekday() >= 4: ... else: ...`
last_friday(last_day) ==
    IF weekday(last_day) >= 4
    THEN last_day - (weekday(last_day) - 4)
    ELSE last_day - (weekday(last_day) + 2)

\* load_context is called with END_DATE = TODAY, on a store that holds no index
\* record or one
InitContext ==
    /\ today \in ContextDays
    /\ store_reachable \in BOOLEAN
    /\ index_list = INDEX_LIST
    /\ index_daily \in {{}} \cup
         {{IndexDoc(INDEX_LIST[1], [date |-> d, Open |-> p, Close |-> p])} :
            d \in ContextDays, p \in Prices}
    /\ stock_daily = {}
    /\ max_retries = 0 /\ dry_run = FALSE /\ legacy_sdk = FALSE
    /\ default_start = 0 /\ max_initial_days = RunInitialDays
    /\ pc = "ctx" /\ pipeline = "none"
    /\ FreshLocals

\* `if not prices.empty`: the window ends on last_friday
ContextFromPrices ==
    /\ pc = "ctx" /\ ContextRows # {}
    /\ end_week' = last_friday(LastPriceDay)
    /\ start_week' = end_week' - 5
    /\ pc' = "ctx_done"
    /\ UNCHANGED <<retry, alpha_weekly_raw, alpha_weekly_summary>>
    /\ UNCHANGED <<ConfigVars, StoreVars, FetchVars, LoopVars, HistoryVars>>

\* `else`: fallback to END_DATE
ContextFromEndDate ==
    /\ pc = "ctx" /\ ContextRows = {}
    /\ end_week' = today
    /\ start_week' = today - 5
    /\ pc' = "ctx_done"
    /\ UNCHANGED <<retry, alpha_weekly_raw, alpha_weekly_summary>>
    /\ UNCHANGED <<ConfigVars, StoreVars, FetchVars, LoopVars, HistoryVars>>

load_context ==
    \/ ContextFromPrices
    \/ ContextFromEndDate

SpecContext ==
    InitContext /\ [][load_context]_vars

\* ------------------- alphaventage.py: save_weekly_to_mongo (SpecSave)

\* number of raw documents the weekly store is exercised with
MaxSaves == 3
Symbols == {"SPY", "QQQ"}

\* the JSON of a status-200 answer: whether it has a key starting with "weekly",
\* the week-end days of that series (Fridays), and whether the closes of the two
\* latest weeks convert to float
WeeklyPayload(has_series, dates, closes_ok) ==
    [has_series |-> has_series, dates |-> dates, closes_ok |-> closes_ok]

\* an answer without a series (an informational message), and series of zero to
\* three weeks
WeeklyPayloads ==
    {WeeklyPayload(FALSE, {}, TRUE), WeeklyPayload(TRUE, {1, 8}, FALSE)}
    \cup {WeeklyPayload(TRUE, ds, TRUE) : ds \in {{}, {8}, {1, 8}, {8, 15}, {1, 8, 15}}}

\* compute_last_week_change: None without a weekly key, with fewer than two
\* dates or with a close that does not convert; else the summary, of which the
\* model keeps week_end = dates[0], the latest date
compute_last_week_change(weekly_data) ==
    IF ~weekly_data.has_series THEN None
    ELSE IF Cardinality(weekly_data.dates) < 2 THEN None
    ELSE IF ~weekly_data.closes_ok THEN None
    ELSE MaxOf(weekly_data.dates)

\* AlphaMongoClient.latest_raw_for_symbol: find_one sorted by fetched_at
\* descending; 0 when the symbol has no raw document
latest_raw_for_symbol(raw, symbol) ==
    LET mine == {i \in 1..Len(raw) : raw[i].symbol = symbol}
    IN  IF mine = {} THEN 0 ELSE MaxOf(mine)

\* `if latest_summary and last_summary and latest_summary['week_end'] ==
\* last_summary['week_end']`, under `if avoid_duplicates: ... if latest:`
IsDuplicateWeek(raw, symbol, last_summary, avoid_duplicates) ==
    /\ avoid_duplicates
    /\ latest_raw_for_symbol(raw, symbol) # 0
    /\ LET latest_summary ==
             compute_last_week_change(raw[latest_raw_for_symbol(raw, symbol)].raw)
       IN  latest_summary # None /\ last_summary # None
           /\ latest_summary = last_summary

\* the weekly store is empty
InitSave ==
    /\ today = 0 /\ default_start = 0 /\ max_initial_days = RunInitialDays
    /\ max_retries = 0 /\ dry_run = FALSE /\ legacy_sdk = FALSE /\ index_list = <<>>
    /\ store_reachable = TRUE
    /\ stock_daily = {} /\ index_daily = {}
    /\ pc = "weekly_save" /\ pipeline = "none"
    /\ FreshLocals

\* save_weekly_to_mongo(symbol, fetched, mongo, avoid_duplicates): returns
\* inserted_raw_id = None for a duplicate week, else inserts the raw document and
\* its summary
save_weekly_to_mongo(symbol, data, avoid_duplicates) ==
    /\ pc = "weekly_save" /\ Len(alpha_weekly_raw) < MaxSaves
    /\ LET last_summary == compute_last_week_change(data)
       IN  IF IsDuplicateWeek(alpha_weekly_raw, symbol, last_summary, avoid_duplicates)
           THEN /\ results' = <<[inserted_raw_id |-> None]>>
                /\ UNCHANGED <<alpha_weekly_raw, alpha_weekly_summary>>
           ELSE LET raw_id == Len(alpha_weekly_raw) + 1
                IN  /\ alpha_weekly_raw' =
                         Append(alpha_weekly_raw, [symbol |-> symbol, raw |-> data])
                    /\ alpha_weekly_summary' =
                         Append(alpha_weekly_summary,
                                [symbol |-> symbol, week_end |-> last_summary,
                                 raw_id |-> raw_id])
                    /\ results' = <<[inserted_raw_id |-> raw_id]>>
    /\ UNCHANGED <<end_week, start_week, retry>>
    /\ UNCHANGED <<pc, attempt, invocations, sleeps, fetch_status, last_error>>
    /\ UNCHANGED <<ConfigVars, StoreVars, LoopVars, HistoryVars>>

\* calls with the duplicate check on (avoid_duplicates=True, the default)
SaveWeekly ==
    \E symbol \in Symbols, data \in WeeklyPayloads :
        save_weekly_to_mongo(symbol, data, TRUE)

SpecSave ==
    InitSave /\ [][SaveWeekly]_vars

\* ----------------------------- alphaventage.py: fetch_weekly (SpecWeekly)

\* largest retry fetch_weekly is exercised with (its default is 3)
MaxWeeklyRetry == 4
\* pause: float = 12.0, in seconds
PAUSE == <<12, 1>>
\* status codes other than 200: raise_for_status() raises for the 4xx and 5xx
\* ones only
BadStatuses == {"304", "404", "500"}
RaisingStatuses == {"404", "500"}

\* fetch_weekly is entered with any retry, zero and negative included
InitWeekly ==
    /\ today = 0 /\ default_start = 0 /\ max_initial_days = RunInitialDays
    /\ max_retries = 0 /\ dry_run = FALSE /\ legacy_sdk = FALSE /\ index_list = <<>>
    /\ store_reachable = TRUE
    /\ stock_daily = {} /\ index_daily = {}
    /\ pc = "weekly_loop" /\ pipeline = "none"
    /\ last_date = None /\ start_date = None /\ days = <<>> /\ di = 1 /\ ticker_i = 1
    /\ global_last = None /\ interest = <<>> /\ insecure = FALSE
    /\ attempt = 0 /\ invocations = 0 /\ sleeps = <<>>
    /\ fetch_status = "none" /\ last_error = NoError /\ results = <<>>
    /\ writes = <<>> /\ units = {} /\ attempted = {} /\ covered = {} /\ skipped = {}
    /\ fetched = {} /\ pace = NoPace /\ write_failed = {}
    /\ end_week = None /\ start_week = None
    /\ alpha_weekly_raw = <<>> /\ alpha_weekly_summary = <<>>
    /\ retry \in (0 - 1)..MaxWeeklyRetry

\* what no step of fetch_weekly touches
WeeklyFrame ==
    /\ UNCHANGED <<retry, end_week, start_week, alpha_weekly_raw, alpha_weekly_summary>>
    /\ UNCHANGED <<today, max_retries, default_start, max_initial_days, dry_run,
                   legacy_sdk, index_list, store_reachable>>
    /\ UNCHANGED <<StoreVars, LoopVars, HistoryVars>>

\* `for attempt in range(1, retry + 1)`: one more iteration is due
WeeklyIteration ==
    pc = "weekly_loop" /\ attempt < retry

\* status 200 with neither "Note" nor "Error Message": the data is returned
WeeklyOk ==
    /\ WeeklyIteration
    /\ attempt' = attempt + 1 /\ invocations' = invocations + 1
    /\ \E data \in WeeklyPayloads : results' = <<data>>
    /\ last_error' = {"200"}
    /\ fetch_status' = "returned" /\ pc' = "weekly_end"
    /\ UNCHANGED sleeps
    /\ WeeklyFrame

\* status 200 with "Note" or "Error Message" (RuntimeError), or with a body that
\* is not JSON (resp.json() raises)
WeeklyApiError ==
    /\ WeeklyIteration
    /\ attempt' = attempt + 1 /\ invocations' = invocations + 1
    /\ last_error' \in {{"200", "Note"}, {"200", "Error Message"}, {"200", "not JSON"}}
    /\ fetch_status' = "raised" /\ pc' = "weekly_end"
    /\ UNCHANGED <<sleeps, results>>
    /\ WeeklyFrame

\* requests.get raises (timeout, connection error): nothing catches it
WeeklyTransportError ==
    /\ WeeklyIteration
    /\ attempt' = attempt + 1 /\ invocations' = invocations + 1
    /\ last_error' = {"timed out"}
    /\ fetch_status' = "raised" /\ pc' = "weekly_end"
    /\ UNCHANGED <<sleeps, results>>
    /\ WeeklyFrame

\* WeeklyBadStatus with a fault: the next request follows at once
WeeklyBadStatus_no_pause ==
    /\ WeeklyIteration /\ attempt + 1 < retry
    /\ attempt' = attempt + 1 /\ invocations' = invocations + 1
    /\ \E status \in BadStatuses : last_error' = {status}
    /\ UNCHANGED <<sleeps, pc, fetch_status, results>>
    /\ WeeklyFrame

\* another status with `attempt < retry`: time.sleep(pause), next iteration
WeeklyBadStatus ==
    /\ WeeklyIteration /\ attempt + 1 < retry
    /\ attempt' = attempt + 1 /\ invocations' = invocations + 1
    /\ \E status \in BadStatuses : last_error' = {status}
    /\ sleeps' = Append(sleeps, PAUSE)
    /\ UNCHANGED <<pc, fetch_status, results>>
    /\ WeeklyFrame

\* a 4xx or 5xx status on the last attempt: resp.raise_for_status() raises
WeeklyLastBadStatus ==
    /\ WeeklyIteration /\ attempt + 1 = retry
    /\ attempt' = attempt + 1 /\ invocations' = invocations + 1
    /\ \E status \in RaisingStatuses : last_error' = {status}
    /\ fetch_status' = "raised" /\ pc' = "weekly_end"
    /\ UNCHANGED <<sleeps, results>>
    /\ WeeklyFrame

\* another status on the last attempt: raise_for_status() returns and the loop
\* is over
WeeklyLastOddStatus ==
    /\ WeeklyIteration /\ attempt + 1 = retry
    /\ attempt' = attempt + 1 /\ invocations' = invocations + 1
    /\ \E status \in BadStatuses \ RaisingStatuses : last_error' = {status}
    /\ UNCHANGED <<sleeps, pc, fetch_status, results>>
    /\ WeeklyFrame

\* after the loop (at once when retry <= 0):
\* raise RuntimeError("Failed to fetch weekly data")
WeeklyLoopOver ==
    /\ pc = "weekly_loop" /\ attempt >= retry
    /\ fetch_status' = "raised" /\ pc' = "weekly_end"
    /\ UNCHANGED <<attempt, invocations, sleeps, last_error, results>>
    /\ WeeklyFrame

fetch_weekly ==
    \/ WeeklyOk
    \/ WeeklyApiError
    \/ WeeklyTransportError
    \/ WeeklyBadStatus
    \/ WeeklyLastBadStatus
    \/ WeeklyLastOddStatus
    \/ WeeklyLoopOver

\* the call runs on: nothing but its own requests and sleeps suspends it
SpecWeekly ==
    InitWeekly /\ [][fetch_weekly]_vars /\ WF_vars(fetch_weekly)

\* ================================================================== claims

UniqueKey(coll) ==
    \A r1 \in coll, r2 \in coll :
        (r1.ticker = r2.ticker /\ r1.date = r2.date) => r1 = r2

\* C1: whatever the pipelines upsert, in any order and however often, each
\* collection holds at most one document per (ticker, date), and the document
\* under the key just written is exactly the one written.
C1_OneRecordPerKey ==
    /\ UniqueKey(stock_daily)
    /\ UniqueKey(index_daily)
    /\ (pc = "sink" /\ results # <<>>) =>
         LET doc  == results[1]
             coll == IF pipeline = "indices" THEN index_daily ELSE stock_daily
         IN  {r \in coll : r.ticker = doc.ticker /\ r.date = doc.date} = {doc}

\* (AAPL, day 1) was upserted twice and one document with close = 150 is left
C1_Witness ==
    /\ pc = "sink"
    /\ writes = <<(<<"AAPL", 1>>), (<<"AAPL", 1>>)>>
    /\ Cardinality(stock_daily) = 1
    /\ \A r \in stock_daily : r.close = 150

\* C2: for a cursor strictly before today, the gap of the bulk pipeline and of
\* the index pipeline is every day from cursor + 1 to today inclusive.
C2_GapAfterCursor ==
    (pc \in {"gap_stocks", "gap_index"} /\ last_date # None /\ last_date < today) =>
        /\ days # <<>>
        /\ days[1] = last_date + 1
        /\ days[Len(days)] = today
        /\ Len(days) = today - last_date

C2_Witness ==
    pc = "gap_index" /\ last_date = 2 /\ today = 5 /\ days = <<3, 4, 5>>

\* C3: a cursor on today ends the bulk run, and passes over the index ticker,
\* before any provider call is made for it.
C3_ShortCircuit ==
    /\ (pipeline = "stocks" /\ last_date = today) =>
         (pc = "done" /\ attempted = {} /\ invocations = 0)
    /\ (pipeline = "indices" /\ last_date = today) =>
         /\ pc \in {"index_ticker", "done"}
         /\ \A u \in attempted : u[1] # index_list[ticker_i - 1]

\* an index run found every ticker's cursor on today and fetched nothing
C3_Witness ==
    /\ pipeline = "indices" /\ pc = "done" /\ last_date = today
    /\ attempted = {} /\ index_daily # {}

\* C4: on a first run with MAX_INITIAL_DAYS > 0 the gap starts at
\* today - MAX_INITIAL_DAYS when today - DEFAULT_START_DATE exceeds it, and at
\* DEFAULT_START_DATE otherwise.
C4_InitialClamp ==
    (pc = "gap_stocks" /\ last_date = None /\ max_initial_days > 0 /\ days # <<>>) =>
        days[1] = IF today - default_start > max_initial_days
                  THEN today - max_initial_days
                  ELSE default_start

\* the instance: default_start day 0, today day 151, 90 days: the gap starts at 61
C4_Witness ==
    /\ pc = "gap_stocks" /\ last_date = None
    /\ default_start = 0 /\ today = 151 /\ max_initial_days = 90
    /\ days # <<>> /\ days[1] = 61

\* C5: request_with_retry never invokes the operation more than max_retries + 1
\* times, and when every call was rate-limited it returns [] after exactly
\* max_retries + 1 invocations.
C5_Exhaustion ==
    pipeline = "stocks" =>
        /\ invocations <= max_retries + 1
        /\ (pc = "stocks_batch" /\ fetch_status = "exhausted") =>
             (invocations = max_retries + 1 /\ results = <<>>)

C5_Witness ==
    /\ pc = "stocks_batch" /\ fetch_status = "exhausted"
    /\ max_retries = 2 /\ invocations = 3 /\ results = <<>>

StrictlyIncreasing(s) ==
    \A i \in 1..(Len(s) - 1) : RatLess(s[i], s[i + 1])

\* C6 as claimed: after k rate-limit failures and a success the fetcher has slept
\* k times, returns the response, and the k sleeps are strictly increasing.
C6_Original ==
    (pc = "stocks_batch" /\ fetch_status = "ok") =>
        /\ Len(sleeps) = attempt
        /\ results \in GroupedDaily(days[di])
        /\ StrictlyIncreasing(sleeps)

\* C6 as amended: the same, with the sleeps strictly increasing as long as no
\* sleep but the last is past the 20 s alignment threshold
\* (BACKOFF_BASE ** (k - 1) <= 20, k <= 8 at BACKOFF_BASE = 1.5).
C6_Amended ==
    (pc = "stocks_batch" /\ fetch_status = "ok") =>
        /\ Len(sleeps) = attempt
        /\ results \in GroupedDaily(days[di])
        /\ (attempt <= 1 \/ ~RatLess(<<BACKOFF_ALIGN_THRESHOLD, 1>>,
                                     RawBackoff(attempt - 1)))
             => StrictlyIncreasing(sleeps)

\* the instance: three rate-limit failures, then success, with max_retries = 5
C6_Witness ==
    /\ pc = "stocks_batch" /\ fetch_status = "ok"
    /\ max_retries = 5 /\ attempt = 3 /\ Len(sleeps) = 3
    /\ results # <<>>

\* the claim's own reading of "classified as rate-limiting"
ClaimRateLimited(msg) ==
    ("429" \in msg) \/ ("rate" \in msg /\ "limit" \in msg)

\* C7: a failure of the first call of either fetcher whose message is not
\* rate-limit classified ends the fetch at once: it returns Empty, with no sleep
\* and no further invocation.
C7_NoRetryOnOtherError ==
    [][(/\ pc \in {"stocks_fetch", "ticker_fetch"}
        /\ invocations' = invocations + 1
        /\ fetch_status' # "ok"
        /\ ~ClaimRateLimited(last_error'))
       => (/\ pc' \in {"stocks_batch", "backfill_unit"}
           /\ fetch_status' = "error"
           /\ results' = <<>>
           /\ sleeps' = sleeps)]_vars

\* the bulk fetcher returned [] after one invocation that failed otherwise
C7_Witness ==
    /\ pc = "stocks_batch" /\ fetch_status = "error"
    /\ ~ClaimRateLimited(last_error)
    /\ invocations = 1 /\ sleeps = <<>> /\ results = <<>>

\* C8: an Empty result writes nothing and moves the orchestrator to the next
\* unit, and a run that ends has attempted every unit of its gap.
C8_EmptyNotFatal ==
    [][/\ (pc = "stocks_batch" /\ results = <<>> /\ pc' # "idle") =>
            (pc' = "stocks_loop" /\ di' = di + 1 /\ UNCHANGED StoreVars)
       /\ (pc = "backfill_unit" /\ results = <<>> /\ pc' # "idle") =>
            (pc' = "backfill_day" /\ di' = di + 1 /\ UNCHANGED StoreVars)
       /\ (pc \in {"index_fetch", "index_insecure"} /\ fetch_status' = "error") =>
            (pc' = "index_ticker" /\ ticker_i' = ticker_i + 1 /\ UNCHANGED StoreVars)
       /\ (pc = "index_rows" /\ results = <<>> /\ pc' # "idle") =>
            (pc' = "index_ticker" /\ ticker_i' = ticker_i + 1 /\ UNCHANGED StoreVars)
       /\ pc' = "done" =>
            /\ attempted' = units'
            /\ pipeline' = "indices" => ticker_i' > Len(index_list')]_vars

\* a bulk run ended after a unit was skipped and a later one was attempted
C8_Witness ==
    /\ pc = "done" /\ pipeline = "stocks"
    /\ attempted = units
    /\ \E u \in skipped, v \in attempted : u[2] < v[2]

\* the cursor a rerun derives for a unit: the collection's latest date for the
\* bulk pipeline, the ticker's latest date for the backfill
Cursor(u) ==
    IF u[1] = "*" THEN get_last_stock_date(stock_daily)
    ELSE _get_last_date_for_ticker(stock_daily, u[1])

NoHiddenGap ==
    pipeline \in {"stocks", "backfill"} =>
        \A u \in units : u[2] < Cursor(u) => u \in covered

C10_IncreasingWrites ==
    \A i \in 1..Len(writes), j \in 1..Len(writes) :
        (i < j /\ writes[i][1] = writes[j][1]) => writes[i][2] < writes[j][2]

\* a backfill run upserted two days of one ticker
C10_Witness ==
    /\ pipeline = "backfill"
    /\ \E i \in 1..Len(writes), j \in 1..Len(writes) :
         i < j /\ writes[i][1] = writes[j][1] /\ writes[i][2] < writes[j][2]

\* the upserts of this run that carry ticker tk
UpsertsOf(tk) ==
    Cardinality({i \in 1..Len(writes) : writes[i][1] = tk})

\* the provider returned a valid record of tk for each of the two days before
\* and on today
TwoDaysFetched(tk) ==
    {<<tk, today - 1>>, <<tk, today>>} \subseteq fetched

WrittenAfter(ws, n) ==
    {ws[i] : i \in (n + 1)..Len(ws)}

\* C12: an aggregate with no resolvable ticker or no resolvable timestamp is
\* never written (every stored stock document has a ticker and a date), and the
\* other aggregates of the same batch are all written.
C12_RejectedNeverWritten ==
    /\ [](\A r \in stock_daily :
            r.ticker # NoTicker /\ r.ticker # "" /\ r.date # None)
    /\ [][(/\ pc = "stocks_batch" /\ pc' = "stocks_loop" /\ results # <<>>
            /\ <<"*", days[di]>> \in covered')
           => (/\ WrittenAfter(writes', Len(writes)) = ValidKeys(results)
               /\ \A k \in ValidKeys(results) :
                    \E r \in stock_daily' : r.ticker = k[1] /\ r.date = k[2])]_vars

\* a batch with a nameless and an undated aggregate was processed: MSFT, which
\* comes after them, is stored, and its day is covered
C12_Witness ==
    /\ pc = "stocks_loop" /\ pipeline = "stocks"
    /\ \E u \in covered :
         /\ <<"MSFT", u[2]>> \in SeqToSet(writes)
         /\ \E r \in stock_daily : r.ticker = "MSFT" /\ r.date = u[2]

\* the value the claim has persisted: the full-name attribute when it is
\* present, the abbreviated one otherwise
Preferred(full, short) ==
    IF full # None THEN full ELSE short

\* C13: the persisted open and close are the full-name attribute whenever it is
\* present, whatever the abbreviated attribute holds, the abbreviated attribute
\* only when the full name is absent, and None only when both are absent.
C13_FullNamePreferred ==
    (pc \in {"norm_stock", "norm_backfill"} /\ Len(results) = 2) =>
        /\ results[2].open = Preferred(results[1].open, results[1].o)
        /\ results[2].close = Preferred(results[1].close, results[1].c)

\* C14: an upsert leaves under its key exactly the new document, with the new
\* ingested_at and with none of the previous document's values, also when the
\* previous document came from another pipeline.
C14_ReplacedWholesale ==
    [][(pc = "sink" /\ writes' # writes) =>
         LET new  == results'[1]
             coll == IF pipeline' = "indices" THEN index_daily' ELSE stock_daily'
             kept == {r \in coll : r.ticker = new.ticker /\ r.date = new.date}
         IN  /\ new.ingested_at = today
             /\ \A r \in kept :
                  /\ DOMAIN r = DOMAIN new
                  /\ \A f \in DOMAIN new : r[f] = new[f]]_vars

\* a bulk document with close = 150 ingested on day 1 was overwritten on day 2 by
\* a backfill document with no close
C14_Witness ==
    /\ pc = "sink" /\ pipeline = "backfill" /\ today = 2
    /\ writes = <<(<<"AAPL", 1>>), (<<"AAPL", 1>>)>>
    /\ stock_daily = {[ticker |-> "AAPL", date |-> 1, open |-> 150, close |-> None,
                       source |-> "polygon-open-close", ingested_at |-> 2]}

\* C15: whenever a pipeline enters the fetch of a unit after the fetch of another
\* unit of the same run, its pacing sleep was executed in between, whatever the
\* outcome of the earlier unit.
C15_PacedBetweenFetches ==
    [][/\ (pc = "stocks_loop" /\ pc' = "stocks_fetch"
            /\ \E u \in attempted : u[1] = "*")
           => pace = SLEEP_SECONDS
       /\ (pc = "backfill_day" /\ pc' = "ticker_fetch"
            /\ \E u \in attempted : u[1] # "*" /\ u[2] # None)
           => pace = BACKFILL_PACE
       /\ (pc # "index_fetch" /\ pc' = "index_fetch"
            /\ \E u \in attempted : u[2] = None)
           => pace = INDEX_PACE]_vars

\* C16: a failed write costs exactly its own record: the other accepted records
\* of the batch are written and counted, the failed one is not, the loop moves
\* to the next unit, and a run that completes has attempted every unit.
WriteLost(u) == u \in skipped' \ skipped
C16_WriteFailureIsLocal ==
    /\ [][/\ (pc = "stocks_batch" /\ pc' = "stocks_loop" /\ results # <<>>
               /\ WriteLost(<<"*", days[di]>>))
              => /\ WrittenAfter(writes', Len(writes)) \subseteq ValidKeys(results)
                 /\ Len(writes') - Len(writes) = Cardinality(ValidKeys(results)) - 1
                 /\ di' = di + 1
          /\ (pc = "backfill_unit" /\ WriteLost(<<interest[ticker_i], days[di]>>))
              => /\ writes' = writes /\ stock_daily' = stock_daily
                 /\ pc' = "backfill_day" /\ di' = di + 1
          /\ (pc = "index_rows" /\ WriteLost(<<index_list[ticker_i], None>>))
              => /\ Len(writes') - Len(writes) = Len(results) - 1
                 /\ pc' = "index_ticker" /\ ticker_i' = ticker_i + 1]_vars
    /\ [](pc = "done" => units \subseteq attempted)

\* the write of AAPL's record failed on a day, MSFT's record of the same batch
\* was written, and a later day was fetched
C16_Witness ==
    /\ pipeline = "stocks"
    /\ \E u \in skipped :
         /\ u[1] = "*"
         /\ <<"MSFT", u[2]>> \in SeqToSet(writes)
         /\ <<"AAPL", u[2]>> \notin SeqToSet(writes)
         /\ \E v \in attempted : v[2] > u[2]

\* C17: with no persisted data and MAX_INITIAL_DAYS > 0, the days a pipeline
\* (bulk, backfill or index) requests start no earlier than
\* today - MAX_INITIAL_DAYS and span at most MAX_INITIAL_DAYS + 1 days.
C17_InitialCatchUpBounded ==
    (pc \in {"gap_stocks", "gap_backfill", "gap_index"} /\ last_date = None
       /\ max_initial_days > 0 /\ days # <<>>) =>
        /\ days[1] >= today - max_initial_days
        /\ days[Len(days)] - days[1] <= max_initial_days

\* C18: a backfill unit given up on a rate-limit error was called
\* max_retries + 1 times, with a sleep of backoff_base^attempt before each retry
\* (as long as that is within the alignment threshold).
C18_BackfillRetries ==
    (pipeline = "backfill" /\ pc = "backfill_unit" /\ fetch_status = "exhausted"
       /\ per_ticker_rate_limited(last_error)) =>
        /\ invocations = max_retries + 1
        /\ Len(sleeps) = max_retries
        /\ \A i \in 1..Len(sleeps) :
             ~RatLess(<<BACKOFF_ALIGN_THRESHOLD, 1>>, RawBackoff(i))
               => sleeps[i] = RawBackoff(i)

\* C19: the first history() call for every index ticker goes through the secure
\* session, and a call goes through the insecure session only right after a
\* certificate error of the same ticker.
C19_SecureByDefault ==
    /\ pc = "index_fetch" => ~insecure
    /\ pc = "index_insecure" => (insecure /\ is_cert_err(last_error))

\* C20: every fetch the backfill enters is for a ticker of the interest list whose
\* cursor in the store is not the global maximum stock date, and for a weekday
\* after that cursor (from DEFAULT_START_DATE on when the ticker has no data) and
\* not after the global maximum.
C20_BackfillFetchesOnlyGaps ==
    [][(pc = "backfill_day" /\ pc' = "ticker_fetch") =>
         LET tk  == interest[ticker_i]
             d   == days[di]
             cur == _get_last_date_for_ticker(stock_daily, tk)
             g   == get_last_stock_date(stock_daily)
         IN  /\ \A u \in attempted' \ attempted :
                  u[1] \in SeqToSet(interest) /\ u = <<tk, d>>
             /\ g # None /\ cur # g
             /\ weekday(d) < SATURDAY
             /\ IF cur = None THEN d >= default_start ELSE d >= cur + 1
             /\ d <= g]_vars

\* MSFT alone is of interest and behind the global maximum: its Monday (day 4) is
\* fetched after its Friday (day 1), AAPL is never fetched
C20_Witness ==
    /\ pc = "ticker_fetch" /\ pipeline = "backfill" /\ interest = <<"MSFT">>
    /\ days[di] = 4 /\ get_last_stock_date(stock_daily) = 4
    /\ <<"MSFT", 1>> \in attempted
    /\ \A u \in attempted : u[1] \in {"*", "MSFT"}

\* an attribute is resolvable when the answer carries it under either name
Resolvable(full, short) == full # None \/ short # None

\* C21: the backfill drops an answer exactly when neither open nor close is
\* resolvable; otherwise it builds a document in which a field that does not
\* resolve is null.
C21_DropOnlyWhenBothUnresolvable ==
    pc = "norm_backfill" =>
        LET raw == results[1]
        IN  /\ Len(results) = 1 <=>
                 (~Resolvable(raw.open, raw.o) /\ ~Resolvable(raw.close, raw.c))
            /\ Len(results) = 2 =>
                 /\ ~Resolvable(raw.open, raw.o) => results[2].open = None
                 /\ ~Resolvable(raw.close, raw.c) => results[2].close = None

\* C22: as long as the store has not been reached, and for good when it cannot
\* be reached, main() has issued no fetch and written no record; an unreachable
\* store ends main() before any pipeline.
C22_AbortBeforeWork ==
    (pc = "main_start" \/ ~store_reachable) =>
        /\ pc \in {"main_start", "aborted"}
        /\ pipeline = "none"
        /\ invocations = 0 /\ attempted = {} /\ writes = <<>>

C22_Witness ==
    /\ pc = "aborted" /\ ~store_reachable /\ index_list # <<>>
    /\ invocations = 0 /\ attempted = {} /\ writes = <<>>

\* the latest weekday at or before day d
LatestWeekday(d) ==
    IF weekday(d) < SATURDAY THEN d ELSE d - (weekday(d) - (SATURDAY - 1))

HasRecord(u) ==
    \E r \in stock_daily : r.ticker = u[1] /\ r.date = u[2]

\* C23: when the backfill has completed, every fetch it issued returned an
\* answer carrying open or close and no write failed, every missing weekday of
\* every interest ticker has its record and every interest ticker's cursor has
\* reached the latest
\* weekday at or before the global maximum date.
C23_BackfillCatchesUp ==
    (pc = "done" /\ pipeline = "backfill" /\ global_last # None
       /\ attempted = units /\ attempted \subseteq fetched /\ write_failed = {}) =>
        /\ \A u \in units : HasRecord(u)
        /\ \A tk \in SeqToSet(interest) :
             _get_last_date_for_ticker(stock_daily, tk) >= LatestWeekday(global_last)

\* C27: with DRY_RUN set no step of main() issues a provider call or changes a
\* record collection.
C27_DryRunTouchesNothing ==
    [][dry_run => /\ invocations' = 0
                  /\ stock_daily' = stock_daily
                  /\ index_daily' = index_daily]_vars

\* C24: when price data is available, end_week is a Friday, lies on or at most 6
\* days before the last day with price data, and start_week is 5 days earlier.
C24_WeekEndsOnFriday ==
    (pc = "ctx_done" /\ ContextRows # {}) =>
        /\ weekday(end_week) = 4
        /\ end_week <= LastPriceDay
        /\ LastPriceDay - end_week <= 6
        /\ start_week = end_week - 5

\* the latest week-end day an answer carries, None when it carries none
LatestWeekEnd(data) ==
    IF data.has_series /\ data.dates # {} THEN MaxOf(data.dates) ELSE None

\* C25: with the duplicate check on, the summary collection never holds two
\* documents with the same (symbol, week_end), the raw collection never two
\* documents of a symbol with the same latest week_end.
C25_OneDocumentPerWeek ==
    /\ \A i, j \in 1..Len(alpha_weekly_summary) :
         (/\ alpha_weekly_summary[i].symbol = alpha_weekly_summary[j].symbol
          /\ alpha_weekly_summary[i].week_end = alpha_weekly_summary[j].week_end)
            => i = j
    /\ \A i, j \in 1..Len(alpha_weekly_raw) :
         (/\ alpha_weekly_raw[i].symbol = alpha_weekly_raw[j].symbol
          /\ LatestWeekEnd(alpha_weekly_raw[i].raw) = LatestWeekEnd(alpha_weekly_raw[j].raw))
            => i = j

\* C26: fetch_weekly makes at most `retry` requests, with one pause after every
\* request but the last, always ends, returns only the data of a plain 200
\* answer and raises in every other case.
C26_FetchWeeklyBounded ==
    /\ [](/\ invocations <= (IF retry > 0 THEN retry ELSE 0)
          /\ \A i \in 1..Len(sleeps) : sleeps[i] = PAUSE
          /\ WeeklyIteration => Len(sleeps) = invocations
          /\ pc = "weekly_end" =>
               /\ Len(sleeps) = (IF invocations = 0 THEN 0 ELSE invocations - 1)
               /\ fetch_status \in {"returned", "raised"}
               /\ fetch_status = "returned" =>
                    (last_error = {"200"} /\ results # <<>>)
               /\ fetch_status = "raised" => results = <<>>
               /\ last_error # {"200"} => fetch_status = "raised")
    /\ <>(pc = "weekly_end")

\* three requests with a bad status and two pauses, then the error of the last
C26_Witness ==
    /\ pc = "weekly_end" /\ retry = 3 /\ invocations = 3
    /\ sleeps = <<PAUSE, PAUSE>> /\ fetch_status = "raised" /\ last_error = {"500"}

====
